---- MODULE Spec2Model ----
(***************************************************************************)
(* Model of core/crypto/src/signature.rs: the algorithm-tagged PublicKey,  *)
(* SecretKey and Signature values, their binary (borsh) and textual        *)
(* (name:base58) codecs, and sign / verify; and of the genesis helpers of  *)
(* test-utils/testlib/src/runtime_utils.rs.                                *)
(*                                                                         *)
(* Bytes are naturals 0..255, byte strings are sequences of bytes with the *)
(* program's real lengths (32/64/294, 64/65/256).  Text is a sequence of   *)
(* ASCII codes.  The elliptic-curve and RSA arithmetic lives in external   *)
(* crates; it is modelled by small deterministic stand-ins that keep the   *)
(* contract the code relies on (which inputs a primitive rejects, that a   *)
(* primitive's verify accepts exactly what its sign produces).             *)
(***************************************************************************)
EXTENDS Integers, Sequences, FiniteSets, TLC

----------------------------------------------------------------------------
(* Outcomes of a call: a value, a returned error, or a panic (unwrap /     *)
(* expect / slice-length mismatch), which aborts the calling thread.       *)

Ok(v) == [kind |-> "ok", val |-> v]
Err(e) == [kind |-> "err", val |-> e]
Panic(m) == [kind |-> "panic", val |-> m]

IsOk(r) == r.kind = "ok"
IsErr(r) == r.kind = "err"
IsPanic(r) == r.kind = "panic"

----------------------------------------------------------------------------
(* Byte-string helpers.                                                    *)

Zeros(n) == [i \in 1..n |-> 0]
Fill(n, b) == [i \in 1..n |-> b]
Pad(n, tail) == Zeros(n - Len(tail)) \o tail
Reverse(s) == [i \in 1..Len(s) |-> s[Len(s) + 1 - i]]
LastByte(s) == IF Len(s) = 0 THEN 0 ELSE s[Len(s)]

\* number of leading elements of s equal to v (Iterator::take_while(..).count())
LeadingCount(s, v) ==
  LET other == {i \in 1..Len(s) : s[i] # v}
  IN IF other = {} THEN Len(s)
     ELSE (CHOOSE i \in other : \A j \in other : i <= j) - 1

\* position of the first element of s equal to v, 0 when there is none
FirstIndexOf(s, v) ==
  LET hits == {i \in 1..Len(s) : s[i] = v}
  IN IF hits = {} THEN 0 ELSE CHOOSE i \in hits : \A j \in hits : i <= j

\* big-endian comparison of two byte strings of the same length (U256 `<`)
LessBE(a, b) ==
  \E i \in 1..Len(a) : a[i] < b[i] /\ \A j \in 1..(i - 1) : a[j] = b[j]

----------------------------------------------------------------------------
(* KeyType                                                                 *)

KeyTypes == {"ED25519", "SECP256K1", "RSA2048"}

STR_ED25519 == <<101, 100, 50, 53, 53, 49, 57>>
STR_SECP256K1 == <<115, 101, 99, 112, 50, 53, 54, 107, 49>>
STR_RSA2048 == <<114, 115, 97, 50, 48, 52, 56>>
COLON == 58

\* impl Display for KeyType
KeyTypeDisplay(kt) ==
  CASE kt = "ED25519" -> STR_ED25519
    [] kt = "SECP256K1" -> STR_SECP256K1
    [] kt = "RSA2048" -> STR_RSA2048

\* str::to_ascii_lowercase
ToAsciiLowercase(s) ==
  [i \in 1..Len(s) |-> IF s[i] >= 65 /\ s[i] <= 90 THEN s[i] + 32 ELSE s[i]]

\* from_str matching the name as written, without to_ascii_lowercase
KeyTypeFromStrCaseSensitive(value) ==
  CASE value = STR_ED25519 -> Ok("ED25519")
    [] value = STR_SECP256K1 -> Ok("SECP256K1")
    [] value = STR_RSA2048 -> Ok("RSA2048")
    [] OTHER -> Err([error |-> "UnknownKeyType", unknown_key_type |-> value])

\* impl FromStr for KeyType
KeyTypeFromStr(value) ==
  LET lowercase_key_type == ToAsciiLowercase(value)
  IN CASE lowercase_key_type = STR_ED25519 -> Ok("ED25519")
       [] lowercase_key_type = STR_SECP256K1 -> Ok("SECP256K1")
       [] lowercase_key_type = STR_RSA2048 -> Ok("RSA2048")
       [] OTHER -> Err([error |-> "UnknownKeyType", unknown_key_type |-> lowercase_key_type])

\* the discriminant of the enum (ED25519 = 0, SECP256K1 = 1, RSA2048 = 2)
KeyTypeTag(kt) ==
  CASE kt = "ED25519" -> 0
    [] kt = "SECP256K1" -> 1
    [] kt = "RSA2048" -> 2

\* an unknown tag byte taken for Ed25519, the default of the text form
KeyTypeTryFromU8Lenient(value) ==
  CASE value = 1 -> Ok("SECP256K1")
    [] value = 2 -> Ok("RSA2048")
    [] OTHER -> Ok("ED25519")

\* impl TryFrom<u8> for KeyType
KeyTypeTryFromU8(value) ==
  CASE value = 0 -> Ok("ED25519")
    [] value = 1 -> Ok("SECP256K1")
    [] value = 2 -> Ok("RSA2048")
    [] OTHER -> Err([error |-> "UnknownKeyType", unknown_key_type |-> value])

\* position of the last element of s equal to v, 0 when there is none
LastIndexOf(s, v) ==
  LET hits == {i \in 1..Len(s) : s[i] = v}
  IN IF hits = {} THEN 0 ELSE CHOOSE i \in hits : \A j \in hits : i >= j

\* the split made at the last colon (str::rsplit_once)
split_key_type_data_last(value) ==
  LET at == LastIndexOf(value, COLON)
  IN IF at # 0
     THEN LET prefix == SubSeq(value, 1, at - 1)
              key_data == SubSeq(value, at + 1, Len(value))
              kt == KeyTypeFromStr(prefix)
          IN IF IsOk(kt) THEN Ok([key_type |-> kt.val, key_data |-> key_data])
             ELSE kt
     ELSE Ok([key_type |-> "ED25519", key_data |-> value])

\* str::split_once(':') followed by the Ed25519 default
split_key_type_data(value) ==
  LET at == FirstIndexOf(value, COLON)
  IN IF at # 0
     THEN LET prefix == SubSeq(value, 1, at - 1)
              key_data == SubSeq(value, at + 1, Len(value))
              kt == KeyTypeFromStr(prefix)
          IN IF IsOk(kt) THEN Ok([key_type |-> kt.val, key_data |-> key_data])
             ELSE kt
     ELSE Ok([key_type |-> "ED25519", key_data |-> value])

----------------------------------------------------------------------------
(* Base58 (crate bs58, Bitcoin alphabet), digit by digit as the crate's    *)
(* encode_into / decode_into do it.                                        *)

BS58_ALPHABET ==
  <<49, 50, 51, 52, 53, 54, 55, 56, 57,
    65, 66, 67, 68, 69, 70, 71, 72, 74, 75, 76, 77, 78, 80, 81, 82, 83, 84,
    85, 86, 87, 88, 89, 90,
    97, 98, 99, 100, 101, 102, 103, 104, 105, 106, 107, 109, 110, 111, 112,
    113, 114, 115, 116, 117, 118, 119, 120, 121, 122>>

\* value of a base58 character, -1 for a character outside the alphabet
Bs58Value(c) == FirstIndexOf(BS58_ALPHABET, c) - 1

\* The crate's loops run front to back; here a range lo..hi is walked as its
\* lower half and then its upper half, which visits the same elements in the
\* same order.

RECURSIVE Bs58EncDigits(_, _, _, _)
\* the digits lo..hi of the inner loop of encode_into: `carry += digit << 8;
\* digit = carry % 58; carry /= 58`; st is the carry and the digits written
Bs58EncDigits(digits, lo, hi, st) ==
  IF lo > hi THEN st
  ELSE IF lo = hi
       THEN LET c == st.carry + digits[lo] * 256
            IN [carry |-> c \div 58, acc |-> Append(st.acc, c % 58)]
       ELSE LET mid == (lo + hi) \div 2
                lower == Bs58EncDigits(digits, lo, mid, st)
            IN IF lower.carry >= 0 THEN Bs58EncDigits(digits, mid + 1, hi, lower)
               ELSE lower

RECURSIVE Bs58EncFlush(_, _)
\* `while carry > 0`: the carry left over becomes new digits
Bs58EncFlush(carry, acc) ==
  IF carry > 0 THEN Bs58EncFlush(carry \div 58, Append(acc, carry % 58))
  ELSE acc

\* one input byte pushed through the little-endian base58 digits
Bs58EncCarry(digits, byte) ==
  LET st == Bs58EncDigits(digits, 1, Len(digits), [carry |-> byte, acc |-> <<>>])
  IN Bs58EncFlush(st.carry, st.acc)

RECURSIVE Bs58EncLoop(_, _, _, _)
\* the bytes lo..hi of the outer loop of encode_into
Bs58EncLoop(input, lo, hi, digits) ==
  IF lo > hi THEN digits
  ELSE IF lo = hi THEN Bs58EncCarry(digits, input[lo])
  ELSE LET mid == (lo + hi) \div 2
           lower == Bs58EncLoop(input, lo, mid, digits)
       IN IF Len(lower) >= 0 THEN Bs58EncLoop(input, mid + 1, hi, lower)
          ELSE lower

\* bs58::encode(input).into(buf): leading zero bytes do no work in the digit
\* loop and come out as leading '1' characters
Bs58Encode(input) ==
  LET z == LeadingCount(input, 0)
      digits == Bs58EncLoop(input, z + 1, Len(input), <<>>)
      all == digits \o Zeros(z)
  IN Reverse([i \in 1..Len(all) |-> BS58_ALPHABET[all[i] + 1]])

RECURSIVE Bs58DecBytes(_, _, _, _)
\* the bytes lo..hi of the inner loop of decode_into: `val += byte * 58;
\* byte = val & 0xff; val >>= 8`; st is val and the bytes written
Bs58DecBytes(out, lo, hi, st) ==
  IF lo > hi THEN st
  ELSE IF lo = hi
       THEN LET v == st.val + out[lo] * 58
            IN [val |-> v \div 256, acc |-> Append(st.acc, v % 256)]
       ELSE LET mid == (lo + hi) \div 2
                lower == Bs58DecBytes(out, lo, mid, st)
            IN IF lower.val >= 0 THEN Bs58DecBytes(out, mid + 1, hi, lower)
               ELSE lower

RECURSIVE Bs58DecFlush(_, _, _)
\* `while val > 0`: what is left over becomes new bytes, <<-1>> when they
\* outgrow the buffer
Bs58DecFlush(val, acc, cap) ==
  IF val > 0
  THEN IF Len(acc) >= cap THEN <<-1>>
       ELSE Bs58DecFlush(val \div 256, Append(acc, val % 256), cap)
  ELSE acc

\* one character value pushed through the little-endian output bytes
Bs58DecCarry(out, val, cap) ==
  LET st == Bs58DecBytes(out, 1, Len(out), [val |-> val, acc |-> <<>>])
  IN Bs58DecFlush(st.val, st.acc, cap)

RECURSIVE Bs58DecLoop(_, _, _, _)
\* the characters lo..hi of the outer loop of decode_into; r is the status
\* and the bytes so far, and nothing is done once the status is an error
Bs58DecLoop(input, lo, hi, r) ==
  IF lo > hi \/ r.st # "ok" THEN r
  ELSE IF lo = hi
       THEN IF input[lo] > 127 THEN [st |-> "NonAsciiCharacter", out |-> <<>>]
            ELSE IF Bs58Value(input[lo]) < 0 THEN [st |-> "InvalidCharacter", out |-> <<>>]
            ELSE LET next == Bs58DecCarry(r.out, Bs58Value(input[lo]), r.cap)
                 IN IF next = <<-1>> THEN [st |-> "BufferTooSmall", out |-> <<>>]
                    ELSE [st |-> "ok", out |-> next, cap |-> r.cap]
       ELSE LET mid == (lo + hi) \div 2
                lower == Bs58DecLoop(input, lo, mid, r)
            IN Bs58DecLoop(input, mid + 1, hi, lower)

\* bs58::decode(input).into(dst) with dst of cap bytes: Ok(decoded bytes) or
\* the crate's error
Bs58DecodeInto(input, cap) ==
  LET z == LeadingCount(input, BS58_ALPHABET[1])
      body == Bs58DecLoop(input, z + 1, Len(input), [st |-> "ok", out |-> <<>>, cap |-> cap])
  IN IF body.st # "ok" THEN Err(body.st)
     ELSE IF Len(body.out) + z > cap THEN Err("BufferTooSmall")
     ELSE Ok(Reverse(body.out \o Zeros(z)))

\* the max_len that FromStr for SecretKey hands to parse_bs58_data
RSA_SECRET_KEY_MAX_LEN == 2048

\* struct Bs58 (Display): debug_assert on the length, encode into a
\* 2048-byte buffer and unwrap
BS58_BUF_LEN == 2048

Bs58Display(bytes) ==
  LET text == Bs58Encode(bytes)
  IN IF Len(text) > BS58_BUF_LEN THEN Panic("BufferTooSmall") ELSE Ok(text)

\* decode_bs58_impl without the BufferTooSmall special case
decode_bs58_impl_no_special_case(expected, encoded) ==
  LET r == Bs58DecodeInto(encoded, expected)
  IN IF IsOk(r)
     THEN IF Len(r.val) = expected THEN Ok(r.val)
          ELSE Err([error |-> "BadLength", expected |-> expected, received |-> Len(r.val)])
     ELSE Err([error |-> "BadData", message |-> r.val])

\* fn decode_bs58_impl
decode_bs58_impl(expected, encoded) ==
  LET r == Bs58DecodeInto(encoded, expected)
  IN IF IsOk(r)
     THEN IF Len(r.val) = expected THEN Ok(r.val)
          ELSE Err([error |-> "BadLength", expected |-> expected, received |-> Len(r.val)])
     ELSE IF r.val = "BufferTooSmall"
          THEN Err([error |-> "BadLength", expected |-> expected, received |-> expected + 1])
          ELSE Err([error |-> "BadData", message |-> r.val])

\* fn decode_bs58::<N>
decode_bs58(N, encoded) == decode_bs58_impl(N, encoded)

----------------------------------------------------------------------------
(* Lengths fixed by the wire format.                                       *)

ED25519_PUBLIC_KEY_LENGTH == 32
ED25519_SECRET_KEY_LENGTH == 32
ED25519_KEYPAIR_LENGTH == 64
ED25519_SIGNATURE_LENGTH == 64
PUBLIC_KEY_SECP256K1_LENGTH == 64
SECP256K1_SECRET_KEY_SIZE == 32
SECP256K1_SIGNATURE_LENGTH == 65
SECP256K1_MESSAGE_SIZE == 32
RAW_PUBLIC_KEY_RSA_2048_LENGTH == 294
RSA2048_SIGNATURE_LENGTH == 256
PRIVTAE_KEY_DEFAULT_RSA_KEY_BITS == 2048

\* const SECP256K1_N, big-endian bytes of the four little-endian u64 limbs
SECP256K1_N ==
  <<255, 255, 255, 255, 255, 255, 255, 255, 255, 255, 255, 255, 255, 255, 255, 254,
    186, 174, 220, 230, 175, 72, 160, 59, 191, 210, 94, 140, 208, 54, 65, 65>>

\* const SECP256K1_N_HALF_ONE ("Half of SECP256K1_N + 1"), big-endian bytes
SECP256K1_N_HALF_ONE ==
  <<127, 255, 255, 255, 255, 255, 255, 255, 255, 255, 255, 255, 255, 255, 255, 255,
    93, 87, 110, 115, 87, 164, 80, 29, 223, 233, 47, 70, 104, 27, 32, 161>>

----------------------------------------------------------------------------
(* Stand-ins for the primitive crates.  Each keeps the part of the crate's *)
(* contract that signature.rs depends on and is deterministic, as the      *)
(* three schemes are (Ed25519, RFC 6979 ECDSA, PKCS#1 v1.5).               *)

\* a one-byte stand-in for "the message as the primitive sees it"
MsgDigest(data) == (LastByte(data) + Len(data)) % 256

\* ed25519_dalek: the public key of a 32-byte seed
EdDerivePublic(seed) ==
  Pad(ED25519_PUBLIC_KEY_LENGTH, <<(2 * LastByte(seed) + 1) % 256>>)

\* ed25519_dalek::VerifyingKey::from_bytes: Ok iff the bytes decompress to a
\* curve point
EdPointValid(pk) ==
  /\ \A i \in 1..(ED25519_PUBLIC_KEY_LENGTH - 1) : pk[i] = 0
  /\ pk[ED25519_PUBLIC_KEY_LENGTH] % 2 = 1

\* ed25519_dalek::SigningKey::generate(..).to_keypair_bytes()
EdKeypairBytes(seed) == seed \o EdDerivePublic(seed)

\* ed25519_dalek::SigningKey::from_keypair_bytes: Err when the public half is
\* not the public key of the secret half
EdFromKeypairBytes(bytes) ==
  LET seed == SubSeq(bytes, 1, ED25519_SECRET_KEY_LENGTH)
      public == SubSeq(bytes, ED25519_SECRET_KEY_LENGTH + 1, ED25519_KEYPAIR_LENGTH)
  IN IF public = EdDerivePublic(seed) THEN Ok(seed) ELSE Err("MismatchedKeypair")

\* the signature R || s of data under the key pair with public key pk; s is a
\* reduced scalar, so the top bits of the last byte are clear
EdSignature(pk, data) ==
  Pad(ED25519_SIGNATURE_LENGTH,
      <<pk[ED25519_PUBLIC_KEY_LENGTH], MsgDigest(data),
        (pk[ED25519_PUBLIC_KEY_LENGTH] + MsgDigest(data)) % 16>>)

\* Verifier::verify for a decompressed key
EdVerify(pk, data, sig) == sig = EdSignature(pk, data)

\* secp256k1::SecretKey::from_slice: a scalar in 1..N-1
SecpScalarValid(sk) ==
  /\ Len(sk) = SECP256K1_SECRET_KEY_SIZE
  /\ sk # Zeros(SECP256K1_SECRET_KEY_SIZE)
  /\ LessBE(sk, SECP256K1_N)

\* the Y coordinate that goes with an X coordinate's low byte
SecpY(x) == (3 * x + 7) % 256

\* secp256k1::PublicKey::from_secret_key(..).serialize_uncompressed(): 0x04,
\* X, Y
SecpSerializeUncompressed(sk) ==
  <<4>> \o Pad(32, <<LastByte(sk)>>) \o Pad(32, <<SecpY(LastByte(sk))>>)

\* secp256k1::PublicKey::from_slice on 65 bytes: the uncompressed marker and a
\* point on the curve
SecpPublicKeyFromSlice(pdata) ==
  /\ Len(pdata) = 65
  /\ pdata[1] = 4
  /\ \A i \in 2..32 : pdata[i] = 0
  /\ \A i \in 34..64 : pdata[i] = 0
  /\ pdata[65] = SecpY(pdata[33])

\* the compact r || s of a message digest under the key with X || Y = xy
SecpCompact(xy, msg) ==
  Pad(32, <<(MsgDigest(msg) + 1) % 256>>) \o Pad(32, <<(xy[32] + MsgDigest(msg)) % 256>>)

\* the recovery id that goes with SecpCompact
SecpRecId(xy, msg) == (xy[32] + MsgDigest(msg)) % 2

\* secp256k1::ecdsa::RecoveryId::from_i32
SecpRecoveryIdValid(id) == id \in 0..3

\* secp256k1::ecdsa::RecoverableSignature::from_compact: Err when r or s is
\* not below the curve order
SecpFromCompactValid(compact) ==
  /\ LessBE(SubSeq(compact, 1, 32), SECP256K1_N)
  /\ LessBE(SubSeq(compact, 33, 64), SECP256K1_N)

\* secp256k1::Message::from_slice
SecpMessageValid(data) == Len(data) = SECP256K1_MESSAGE_SIZE

\* Secp256k1::verify_ecdsa
SecpVerifyEcdsa(msg, compact, xy) == compact = SecpCompact(xy, msg)

\* Secp256k1::recover_ecdsa: the X || Y of the key whose signature over msg
\* is (compact, id), Err when there is no such key
SecpRecoverEcdsa(msg, compact, id) ==
  LET x == (compact[64] + 256 - MsgDigest(msg)) % 256
      xy == Pad(32, <<x>>) \o Pad(32, <<SecpY(x)>>)
  IN IF compact = SecpCompact(xy, msg) /\ id = SecpRecId(xy, msg)
     THEN Ok(xy)
     ELSE Err("InvalidSignature")

\* rsa: the DER SubjectPublicKeyInfo of a key; 294 bytes for a 2048-bit
\* modulus, 162 for a 1024-bit one
RsaPublicDerLen(bits) == IF bits = 2048 THEN 294 ELSE 162

RsaPublicKeyDer(key) == Pad(RsaPublicDerLen(key.bits), <<key.bits \div 256, key.id>>)

\* rsa::RsaPublicKey::from_public_key_der
RsaFromPublicKeyDer(der) ==
  LET id == LastByte(der)
      hi == IF Len(der) < 2 THEN 0 ELSE der[Len(der) - 1]
      key == [bits |-> hi * 256, id |-> id]
  IN IF hi \in {4, 8} /\ id # 0 /\ der = RsaPublicKeyDer(key) THEN Ok(key)
     ELSE Err("Asn1")

\* the PKCS#1 v1.5 unprefixed signature of data under key
RsaSignature(key, data) == Pad(key.bits \div 8, <<key.id, MsgDigest(data)>>)

\* rsa::RsaPrivateKey::sign(Pkcs1v15Sign::new_unprefixed(), data): the padding
\* needs 11 bytes beside the data
RsaSign(key, data) ==
  IF Len(data) + 11 > key.bits \div 8 THEN Err("MessageTooLong")
  ELSE Ok(RsaSignature(key, data))

\* rsa::RsaPublicKey::verify(Pkcs1v15Sign::new_unprefixed(), data, sig)
RsaVerify(key, data, sig) == sig = RsaSignature(key, data)

----------------------------------------------------------------------------
(* PublicKey: [key_type, data], data of the variant's fixed length.        *)

PublicKeyLength(kt) ==
  CASE kt = "ED25519" -> ED25519_PUBLIC_KEY_LENGTH
    [] kt = "SECP256K1" -> PUBLIC_KEY_SECP256K1_LENGTH
    [] kt = "RSA2048" -> RAW_PUBLIC_KEY_RSA_2048_LENGTH

MkPublicKey(kt, bytes) == [key_type |-> kt, data |-> bytes]

\* the position of a variant in the declaration of enum PublicKey, which the
\* derived PartialOrd / Ord compare first
Discriminant(kt) ==
  CASE kt = "ED25519" -> 0
    [] kt = "SECP256K1" -> 1
    [] kt = "RSA2048" -> 2

\* Ord for [u8; N] and [u8]: the first position where the two differ decides,
\* and of two strings one of which is a prefix of the other the shorter is less
ArrayCmp(a, b) ==
  LET common == IF Len(a) < Len(b) THEN Len(a) ELSE Len(b)
      diff == {i \in 1..common : a[i] # b[i]}
      first == CHOOSE i \in diff : \A j \in diff : i <= j
  IN IF diff # {} THEN (IF a[first] < b[first] THEN "Less" ELSE "Greater")
     ELSE IF Len(a) < Len(b) THEN "Less"
     ELSE IF Len(a) > Len(b) THEN "Greater"
     ELSE "Equal"

\* #[derive(PartialEq, Eq)] for PublicKey: the same variant and equal arrays
PublicKeyEq(a, b) ==
  /\ Discriminant(a.key_type) = Discriminant(b.key_type)
  /\ ArrayCmp(a.data, b.data) = "Equal"

\* an ordering that compares the key bytes before the variant
PublicKeyCmpPayloadFirst(a, b) ==
  IF ArrayCmp(a.data, b.data) # "Equal" THEN ArrayCmp(a.data, b.data)
  ELSE IF Discriminant(a.key_type) < Discriminant(b.key_type) THEN "Less"
  ELSE IF Discriminant(a.key_type) > Discriminant(b.key_type) THEN "Greater"
  ELSE "Equal"

\* #[derive(PartialOrd, Ord)] for PublicKey: the discriminants, then the arrays
PublicKeyCmp(a, b) ==
  IF Discriminant(a.key_type) < Discriminant(b.key_type) THEN "Less"
  ELSE IF Discriminant(a.key_type) > Discriminant(b.key_type) THEN "Greater"
  ELSE ArrayCmp(a.data, b.data)

\* Hash for PublicKey: the bytes handed to the Hasher, in the order of the
\* write_u8 and write calls
PublicKeyHash(k) ==
  CASE k.key_type = "ED25519" -> <<0>> \o k.data
    [] k.key_type = "SECP256K1" -> <<1>> \o k.data
    [] k.key_type = "RSA2048" -> <<2>> \o k.data

\* PublicKey::len
len(pk) ==
  CASE pk.key_type = "ED25519" -> ED25519_PUBLIC_KEY_LENGTH + 1
    [] pk.key_type = "SECP256K1" -> PUBLIC_KEY_SECP256K1_LENGTH + 1
    [] pk.key_type = "RSA2048" -> RAW_PUBLIC_KEY_RSA_2048_LENGTH + 1

\* empty with the RSA payload as long as an RSA signature
empty_rsa_signature_sized(key_type) ==
  CASE key_type = "ED25519" -> MkPublicKey("ED25519", Fill(ED25519_PUBLIC_KEY_LENGTH, 0))
    [] key_type = "SECP256K1" -> MkPublicKey("SECP256K1", Fill(PUBLIC_KEY_SECP256K1_LENGTH, 0))
    [] key_type = "RSA2048" -> MkPublicKey("RSA2048", Fill(RSA2048_SIGNATURE_LENGTH, 0))

\* PublicKey::empty
empty(key_type) ==
  CASE key_type = "ED25519" -> MkPublicKey("ED25519", Fill(ED25519_PUBLIC_KEY_LENGTH, 0))
    [] key_type = "SECP256K1" -> MkPublicKey("SECP256K1", Fill(PUBLIC_KEY_SECP256K1_LENGTH, 0))
    [] key_type = "RSA2048" -> MkPublicKey("RSA2048", Fill(RAW_PUBLIC_KEY_RSA_2048_LENGTH, 0))

\* io::Read of exactly n bytes for a [u8; n]: Ok([val, rest]) or an
\* unexpected-length error
ReadArray(rd, n) ==
  IF Len(rd) < n THEN Err([error |-> "InvalidData", message |-> "Unexpected length of input"])
  ELSE Ok([val |-> SubSeq(rd, 1, n), rest |-> SubSeq(rd, n + 1, Len(rd))])

\* u8::deserialize_reader followed by KeyType::try_from and the map_err
ReadKeyType(rd) ==
  LET tag == ReadArray(rd, 1)
  IN IF ~IsOk(tag) THEN tag
     ELSE LET kt == KeyTypeTryFromU8(tag.val.val[1])
          IN IF IsOk(kt) THEN Ok([val |-> kt.val, rest |-> tag.val.rest])
             ELSE Err([error |-> "InvalidData", message |-> "UnknownKeyType"])

\* borsh try_from_slice: deserialize_reader, then no byte may be left over
TryFromSlice(r) ==
  IF ~IsOk(r) THEN r
  ELSE IF r.val.rest # <<>> THEN Err([error |-> "InvalidData", message |-> "Not all bytes read"])
  ELSE Ok(r.val.val)

\* the payload written as a byte vector, with its u32 length in front
PublicKeySerializeLengthPrefixed(pk) ==
  LET n == Len(pk.data)
  IN <<KeyTypeTag(pk.key_type), n % 256, n \div 256, 0, 0>> \o pk.data

\* impl BorshSerialize for PublicKey
PublicKeySerialize(pk) ==
  CASE pk.key_type = "ED25519" -> <<0>> \o pk.data
    [] pk.key_type = "SECP256K1" -> <<1>> \o pk.data
    [] pk.key_type = "RSA2048" -> <<2>> \o pk.data

\* impl BorshDeserialize for PublicKey (deserialize_reader)
PublicKeyDeserializeReader(rd) ==
  LET key_type == ReadKeyType(rd)
  IN IF ~IsOk(key_type) THEN key_type
     ELSE LET kt == key_type.val.val
              array == ReadArray(key_type.val.rest, PublicKeyLength(kt))
          IN IF ~IsOk(array) THEN array
             ELSE Ok([val |-> MkPublicKey(kt, array.val.val), rest |-> array.val.rest])

PublicKeyTryFromSlice(bytes) == TryFromSlice(PublicKeyDeserializeReader(bytes))

\* From<DecodeBs58Error> for ParseKeyError / ParseSignatureError
FromDecodeBs58Error(e) ==
  IF e.error = "BadLength"
  THEN [error |-> "InvalidLength", expected_length |-> e.expected, received_length |-> e.received]
  ELSE [error |-> "InvalidData", error_message |-> e.message]

\* write!(f, "{}:{}", key_type, Bs58(key_data))
DisplayTagged(kt, key_data) ==
  LET b == Bs58Display(key_data)
  IN IF IsOk(b) THEN Ok(KeyTypeDisplay(kt) \o <<COLON>> \o b.val) ELSE b

\* impl Display for PublicKey
PublicKeyDisplay(pk) == DisplayTagged(pk.key_type, pk.data)

\* impl FromStr for PublicKey
PublicKeyFromStr(value) ==
  LET split == split_key_type_data(value)
  IN IF ~IsOk(split) THEN split
     ELSE LET kt == split.val.key_type
              bytes == decode_bs58(PublicKeyLength(kt), split.val.key_data)
          IN IF IsOk(bytes) THEN Ok(MkPublicKey(kt, bytes.val))
             ELSE Err(FromDecodeBs58Error(bytes.val))

----------------------------------------------------------------------------
(* SecretKey: [key_type, data]; data is the 64-byte key pair (Ed25519),    *)
(* the 32-byte scalar (Secp256k1) or the RSA private key [bits, id].       *)

MkSecretKey(kt, material) == [key_type |-> kt, data |-> material]

\* equality over all the bytes of the key, as a derived PartialEq would be
SecretKeyEqWhole(a, b) == a.key_type = b.key_type /\ a.data = b.data

\* impl PartialEq for ED25519SecretKey and the derived PartialEq of SecretKey
SecretKeyEq(a, b) ==
  /\ a.key_type = b.key_type
  /\ IF a.key_type = "ED25519"
     THEN SubSeq(a.data, 1, ED25519_SECRET_KEY_LENGTH) = SubSeq(b.data, 1, ED25519_SECRET_KEY_LENGTH)
     ELSE a.data = b.data

\* rsa: the PKCS#8 DER of a private key (variable length; the model keeps a
\* header byte, the modulus size and the key's identity)
RsaPkcs8Der(key) == <<48, key.bits \div 256, key.id>>

\* rsa::RsaPrivateKey::from_pkcs8_der
RsaFromPkcs8Der(der) ==
  IF Len(der) = 3 /\ der[1] = 48 /\ der[2] \in {4, 8} /\ der[3] # 0
  THEN Ok([bits |-> der[2] * 256, id |-> der[3]])
  ELSE Err("Asn1")

\* public_key with the Ed25519 arm slicing the leading half of the key pair
public_key_leading_half(sk) ==
  CASE sk.key_type = "ED25519" ->
         Ok(MkPublicKey("ED25519", SubSeq(sk.data, 1, ED25519_SECRET_KEY_LENGTH)))
    [] sk.key_type = "SECP256K1" ->
         LET serialized == SecpSerializeUncompressed(sk.data)
         IN Ok(MkPublicKey("SECP256K1", SubSeq(serialized, 2, 65)))
    [] sk.key_type = "RSA2048" ->
         LET der == RsaPublicKeyDer(sk.data)
         IN IF Len(der) # RAW_PUBLIC_KEY_RSA_2048_LENGTH THEN Panic("copy_from_slice")
            ELSE Ok(MkPublicKey("RSA2048", der))

\* SecretKey::public_key
public_key(sk) ==
  CASE sk.key_type = "ED25519" ->
         Ok(MkPublicKey("ED25519",
                        SubSeq(sk.data, ED25519_SECRET_KEY_LENGTH + 1, ED25519_KEYPAIR_LENGTH)))
    [] sk.key_type = "SECP256K1" ->
         LET serialized == SecpSerializeUncompressed(sk.data)
         IN Ok(MkPublicKey("SECP256K1", SubSeq(serialized, 2, 65)))
    [] sk.key_type = "RSA2048" ->
         LET der == RsaPublicKeyDer(sk.data)
         IN IF Len(der) # RAW_PUBLIC_KEY_RSA_2048_LENGTH THEN Panic("copy_from_slice")
            ELSE Ok(MkPublicKey("RSA2048", der))

----------------------------------------------------------------------------
(* Signature: [key_type, data].                                            *)

SignatureLength(kt) ==
  CASE kt = "ED25519" -> ED25519_SIGNATURE_LENGTH
    [] kt = "SECP256K1" -> SECP256K1_SIGNATURE_LENGTH
    [] kt = "RSA2048" -> RSA2048_SIGNATURE_LENGTH

MkSignature(kt, bytes) == [key_type |-> kt, data |-> bytes]

\* SecretKey::sign, ED25519 arm
signEd25519(sk, data) ==
  LET keypair == EdFromKeypairBytes(sk.data)
  IN IF ~IsOk(keypair) THEN Panic("unwrap")
     ELSE Ok(MkSignature("ED25519", EdSignature(EdDerivePublic(keypair.val), data)))

\* the recovery id stored with the 27 bias of the Ethereum convention
signSecp256k1Biased(sk, data) ==
  IF ~SecpMessageValid(data) THEN Panic("32 bytes")
  ELSE LET xy == SubSeq(SecpSerializeUncompressed(sk.data), 2, 65)
           buf == SecpCompact(xy, data) \o <<SecpRecId(xy, data) + 27>>
       IN Ok(MkSignature("SECP256K1", buf))

\* the SECP256K1 arm without the 32-byte requirement of Message::from_slice
signSecp256k1AnyLength(sk, data) ==
  LET xy == SubSeq(SecpSerializeUncompressed(sk.data), 2, 65)
      buf == SecpCompact(xy, data) \o <<SecpRecId(xy, data)>>
  IN Ok(MkSignature("SECP256K1", buf))

\* SecretKey::sign, SECP256K1 arm
signSecp256k1(sk, data) ==
  IF ~SecpMessageValid(data) THEN Panic("32 bytes")
  ELSE LET xy == SubSeq(SecpSerializeUncompressed(sk.data), 2, 65)
           buf == SecpCompact(xy, data) \o <<SecpRecId(xy, data)>>
       IN Ok(MkSignature("SECP256K1", buf))

\* SecretKey::sign, RSA arm
signRsa(sk, data) ==
  LET sign_data == RsaSign(sk.data, data)
  IN IF ~IsOk(sign_data) THEN Panic("unwrap")
     ELSE IF Len(sign_data.val) # 256 THEN Panic("unwrap")
     ELSE Ok(MkSignature("RSA2048", sign_data.val))

\* SecretKey::sign
sign(sk, data) ==
  CASE sk.key_type = "ED25519" -> signEd25519(sk, data)
    [] sk.key_type = "SECP256K1" -> signSecp256k1(sk, data)
    [] sk.key_type = "RSA2048" -> signRsa(sk, data)

\* from_parts that takes a blob of any length
from_parts_unchecked(signature_type, signature_data) ==
  Ok(MkSignature(signature_type, signature_data))

\* Signature::from_parts
from_parts(signature_type, signature_data) ==
  IF Len(signature_data) = SignatureLength(signature_type)
  THEN Ok(MkSignature(signature_type, signature_data))
  ELSE Err([error |-> "InvalidData", error_message |-> "invalid signature length"])

\* check_signature_values with s compared against the curve order whatever
\* reject_upper is
check_signature_values_any_s(sig65, reject_upper) ==
  LET r == SubSeq(sig65, 1, 32)
      s == SubSeq(sig65, 33, 64)
  IN LessBE(r, SECP256K1_N) /\ LessBE(s, SECP256K1_N)

\* Secp256K1Signature::check_signature_values; sig65: the 65 bytes
check_signature_values(sig65, reject_upper) ==
  LET r == SubSeq(sig65, 1, 32)
      s == SubSeq(sig65, 33, 64)
      s_check == IF reject_upper THEN SECP256K1_N_HALF_ONE ELSE SECP256K1_N
  IN LessBE(r, SECP256K1_N) /\ LessBE(s, s_check)

\* Secp256K1Signature::recover; the recovery id is unwrapped, the compact
\* signature and the recovery are mapped to InvalidData
recover(sig65, msg) ==
  IF ~SecpRecoveryIdValid(sig65[65]) THEN Panic("unwrap")
  ELSE IF ~SecpFromCompactValid(SubSeq(sig65, 1, 64))
       THEN Err([error |-> "InvalidData", error_message |-> "InvalidSignature"])
  ELSE LET rec == SecpRecoverEcdsa(msg, SubSeq(sig65, 1, 64), sig65[65])
       IN IF ~IsOk(rec)
          THEN Err([error |-> "InvalidData", error_message |-> rec.val])
          ELSE LET res == <<4>> \o rec.val
               IN Ok(SubSeq(res, 2, 65))

\* Signature::verify, (ED25519, ED25519) arm
verifyEd25519(sig, data, pk) ==
  IF ~EdPointValid(pk.data) THEN Ok(FALSE)
  ELSE Ok(EdVerify(pk.data, data, sig.data))

\* the message built with expect("32 bytes"), as sign builds it
verifySecp256k1Expect(sig, data, pk) ==
  IF ~SecpRecoveryIdValid(sig.data[65]) THEN Ok(FALSE)
  ELSE IF ~SecpFromCompactValid(SubSeq(sig.data, 1, 64)) THEN Ok(FALSE)
  ELSE LET pdata == <<4>> \o pk.data
       IN IF ~SecpMessageValid(data) THEN Panic("32 bytes")
          ELSE IF ~SecpPublicKeyFromSlice(pdata) THEN Ok(FALSE)
          ELSE Ok(SecpVerifyEcdsa(data, SubSeq(sig.data, 1, 64), pk.data))

\* Signature::verify, (SECP256K1, SECP256K1) arm
verifySecp256k1(sig, data, pk) ==
  IF ~SecpRecoveryIdValid(sig.data[65]) THEN Ok(FALSE)
  ELSE IF ~SecpFromCompactValid(SubSeq(sig.data, 1, 64)) THEN Ok(FALSE)
  ELSE LET pdata == <<4>> \o pk.data
       IN IF ~SecpMessageValid(data) THEN Ok(FALSE)
          ELSE IF ~SecpPublicKeyFromSlice(pdata) THEN Ok(FALSE)
          ELSE Ok(SecpVerifyEcdsa(data, SubSeq(sig.data, 1, 64), pk.data))

\* Signature::verify, (RSA, RSA) arm
verifyRsa(sig, data, pk) ==
  LET key == RsaFromPublicKeyDer(pk.data)
  IN IF ~IsOk(key) THEN Panic("unwrap")
     ELSE Ok(RsaVerify(key.val, data, sig.data))

\* the arm chosen by the signature alone
verifyBySignatureType(sig, data, pk) ==
  CASE sig.key_type = "ED25519" -> verifyEd25519(sig, data, pk)
    [] sig.key_type = "SECP256K1" -> verifySecp256k1(sig, data, pk)
    [] sig.key_type = "RSA2048" -> verifyRsa(sig, data, pk)

\* Signature::verify
verify(sig, data, pk) ==
  CASE sig.key_type = "ED25519" /\ pk.key_type = "ED25519" -> verifyEd25519(sig, data, pk)
    [] sig.key_type = "SECP256K1" /\ pk.key_type = "SECP256K1" -> verifySecp256k1(sig, data, pk)
    [] sig.key_type = "RSA2048" /\ pk.key_type = "RSA2048" -> verifyRsa(sig, data, pk)
    [] OTHER -> Ok(FALSE)

\* Signature::key_type / PublicKey::key_type / SecretKey::key_type
key_type(v) == v.key_type

\* the secp256k1 signature written without its recovery id
SignatureSerializeCompact(sig) ==
  CASE sig.key_type = "ED25519" -> <<0>> \o sig.data
    [] sig.key_type = "SECP256K1" -> <<1>> \o SubSeq(sig.data, 1, 64)
    [] sig.key_type = "RSA2048" -> <<2>> \o sig.data

\* impl BorshSerialize for Signature
SignatureSerialize(sig) ==
  CASE sig.key_type = "ED25519" -> <<0>> \o sig.data
    [] sig.key_type = "SECP256K1" -> <<1>> \o sig.data
    [] sig.key_type = "RSA2048" -> <<2>> \o sig.data

\* the decoder without the check of the last byte's top bits
SignatureDeserializeReaderNoCheck(rd) ==
  LET kt_read == ReadKeyType(rd)
  IN IF ~IsOk(kt_read) THEN kt_read
     ELSE LET kt == kt_read.val.val
              array == ReadArray(kt_read.val.rest, SignatureLength(kt))
          IN IF ~IsOk(array) THEN array
             ELSE Ok([val |-> MkSignature(kt, array.val.val), rest |-> array.val.rest])

\* impl BorshDeserialize for Signature (deserialize_reader)
SignatureDeserializeReader(rd) ==
  LET kt_read == ReadKeyType(rd)
  IN IF ~IsOk(kt_read) THEN kt_read
     ELSE LET kt == kt_read.val.val
              array == ReadArray(kt_read.val.rest, SignatureLength(kt))
          IN IF ~IsOk(array) THEN array
             ELSE IF kt = "ED25519"
                     /\ (array.val.val[ED25519_SIGNATURE_LENGTH] \div 32) % 8 # 0
                  THEN Err([error |-> "InvalidData", message |-> "signature error"])
             ELSE Ok([val |-> MkSignature(kt, array.val.val), rest |-> array.val.rest])

SignatureTryFromSlice(bytes) == TryFromSlice(SignatureDeserializeReader(bytes))

\* impl Display for Signature
SignatureDisplay(sig) == DisplayTagged(sig.key_type, sig.data)

\* impl FromStr for Signature
SignatureFromStr(value) ==
  LET split == split_key_type_data(value)
  IN IF ~IsOk(split) THEN split
     ELSE LET kt == split.val.key_type
              bytes == decode_bs58(SignatureLength(kt), split.val.key_data)
          IN IF IsOk(bytes) THEN Ok(MkSignature(kt, bytes.val))
             ELSE Err(FromDecodeBs58Error(bytes.val))

----------------------------------------------------------------------------
(* SecretKey text form.                                                    *)

\* parse_bs58_data that returns the whole buffer, without data.truncate(len)
parse_bs58_data_untruncated(max_len, encoded) ==
  LET expected == IF max_len < Len(encoded) THEN max_len ELSE Len(encoded)
      r == Bs58DecodeInto(encoded, expected)
  IN IF IsOk(r) THEN Ok(r.val \o Zeros(expected - Len(r.val)))
     ELSE IF r.val = "BufferTooSmall"
          THEN Err([error |-> "BadLength", expected |-> expected, received |-> expected + 1])
          ELSE Err([error |-> "BadData", message |-> r.val])

\* fn parse_bs58_data
parse_bs58_data(max_len, encoded) ==
  LET expected == IF max_len < Len(encoded) THEN max_len ELSE Len(encoded)
      r == Bs58DecodeInto(encoded, expected)
  IN IF IsOk(r) THEN r
     ELSE IF r.val = "BufferTooSmall"
          THEN Err([error |-> "BadLength", expected |-> expected, received |-> expected + 1])
          ELSE Err([error |-> "BadData", message |-> r.val])

\* the Ed25519 key written as its Debug form writes it: the secret half only
SecretKeyDisplaySecretHalf(sk) ==
  CASE sk.key_type = "ED25519" ->
         DisplayTagged("ED25519", SubSeq(sk.data, 1, ED25519_SECRET_KEY_LENGTH))
    [] sk.key_type = "SECP256K1" -> DisplayTagged("SECP256K1", sk.data)
    [] sk.key_type = "RSA2048" -> DisplayTagged("RSA2048", RsaPkcs8Der(sk.data))

\* impl Display for SecretKey
SecretKeyDisplay(sk) ==
  CASE sk.key_type = "ED25519" -> DisplayTagged("ED25519", sk.data)
    [] sk.key_type = "SECP256K1" -> DisplayTagged("SECP256K1", sk.data)
    [] sk.key_type = "RSA2048" -> DisplayTagged("RSA2048", RsaPkcs8Der(sk.data))

\* impl FromStr for SecretKey
SecretKeyFromStr(s) ==
  LET split == split_key_type_data(s)
  IN IF ~IsOk(split) THEN split
     ELSE LET kt == split.val.key_type
              key_data == split.val.key_data
          IN CASE kt = "ED25519" ->
                    LET bytes == decode_bs58(ED25519_KEYPAIR_LENGTH, key_data)
                    IN IF IsOk(bytes) THEN Ok(MkSecretKey("ED25519", bytes.val))
                       ELSE Err(FromDecodeBs58Error(bytes.val))
               [] kt = "SECP256K1" ->
                    LET bytes == decode_bs58(SECP256K1_SECRET_KEY_SIZE, key_data)
                    IN IF ~IsOk(bytes) THEN Err(FromDecodeBs58Error(bytes.val))
                       ELSE IF ~SecpScalarValid(bytes.val)
                            THEN Err([error |-> "InvalidData", error_message |-> "InvalidSecretKey"])
                       ELSE Ok(MkSecretKey("SECP256K1", bytes.val))
               [] kt = "RSA2048" ->
                    LET buffer == parse_bs58_data(RSA_SECRET_KEY_MAX_LEN, key_data)
                    IN IF ~IsOk(buffer) THEN Err(FromDecodeBs58Error(buffer.val))
                       ELSE LET key == RsaFromPkcs8Der(buffer.val)
                            IN IF ~IsOk(key)
                               THEN Err([error |-> "InvalidData", error_message |-> key.val])
                               ELSE Ok(MkSecretKey("RSA2048", key.val))

\* SecretKey::from_random; rnd stands for what OsRng delivers
from_random(kt, rnd) ==
  CASE kt = "ED25519" ->
         MkSecretKey("ED25519", EdKeypairBytes([i \in 1..ED25519_SECRET_KEY_LENGTH |-> (7 * i + rnd) % 256]))
    [] kt = "SECP256K1" ->
         MkSecretKey("SECP256K1", [i \in 1..SECP256K1_SECRET_KEY_SIZE |-> (11 * i + rnd) % 256])
    [] kt = "RSA2048" ->
         MkSecretKey("RSA2048", [bits |-> PRIVTAE_KEY_DEFAULT_RSA_KEY_BITS, id |-> rnd])

\* TryFrom<&[u8]> for ED25519PublicKey / Secp256K1PublicKey / Rsa2048PublicKey
\* followed by From<..> for PublicKey
PublicKeyTryFromBytes(kt, data) ==
  IF Len(data) = PublicKeyLength(kt) THEN Ok(MkPublicKey(kt, data))
  ELSE Err([error |-> "InvalidLength", expected_length |-> PublicKeyLength(kt),
            received_length |-> Len(data)])

----------------------------------------------------------------------------
(* static SECP256K1: Lazy<Secp256k1<All>> = Lazy::new(Secp256k1::new).     *)
(* The cell of once_cell::sync::Lazy: a state word, the slot of the value, *)
(* and (for the properties) the number of times the initializer has run.   *)

\* Lazy::new: nothing constructed yet
LazyNew == [state |-> "INCOMPLETE", value |-> "uninit", inits |-> 0]

\* the value Secp256k1::new returns
CONTEXT == "Secp256k1<All>"

\* Deref of the Lazy by a caller that is alone: the initializer runs if it
\* has not run before
Force(cell) ==
  IF cell.state = "COMPLETE" THEN cell
  ELSE [state |-> "COMPLETE", value |-> CONTEXT, inits |-> cell.inits + 1]

\* a plain store in place of the compare-exchange: it always succeeds
CompareExchangeBlind(current, expected) == TRUE

\* AtomicPtr::compare_exchange on the state word: succeeds when the word is
\* still the one the thread loaded
CompareExchange(current, expected) == current = expected

\* the calls of signature.rs that dereference SECP256K1
ContextUsers == {"sign", "verify", "recover", "public_key"}

\* SecretKey::sign and SecretKey::public_key use the context in their
\* Secp256k1 arm
KeyUsesContext(k) == k.key_type = "SECP256K1"

\* Signature::verify reaches SECP256K1.verify_ecdsa: the Secp256k1 arm, after
\* the recovery id, the compact signature, the message and the public key
\* were accepted
VerifyUsesContext(s, data, p) ==
  /\ s.key_type = "SECP256K1" /\ p.key_type = "SECP256K1"
  /\ SecpRecoveryIdValid(s.data[65])
  /\ SecpFromCompactValid(SubSeq(s.data, 1, 64))
  /\ SecpMessageValid(data)
  /\ SecpPublicKeyFromSlice(<<4>> \o p.data)

\* Secp256K1Signature::recover reaches SECP256K1.recover_ecdsa
RecoverUsesContext(sig65) ==
  SecpRecoveryIdValid(sig65[65]) /\ SecpFromCompactValid(SubSeq(sig65, 1, 64))

----------------------------------------------------------------------------
(* testlib/runtime_utils.rs: state records put into a Genesis.  A record   *)
(* is [kind, account_id, ..]; an Account carries the five arguments of     *)
(* Account::new, of which the fourth is the code hash.                     *)

\* hash(&code): a digest that is never the default hash
hash(code) == 1 + ((7 * LastByte(code) + Len(code)) % 255)

\* Default::default() for the code hash
DEFAULT_CODE_HASH == 0

\* Account::new(a, b, c, code_hash, storage_usage)
AccountNew(a, b, c, code_hash, storage_usage) ==
  [balances |-> <<a, b, c>>, code_hash |-> code_hash, storage_usage |-> storage_usage]

\* account.set_code_hash(h)
set_code_hash(account, h) == [account EXCEPT !.code_hash = h]

StateRecordAccount(account_id, account) ==
  [kind |-> "Account", account_id |-> account_id, account |-> account]

StateRecordContract(account_id, code) ==
  [kind |-> "Contract", account_id |-> account_id, code |-> code]

StateRecordAccessKey(account_id, pub_key, access_key) ==
  [kind |-> "AccessKey", account_id |-> account_id, public_key |-> pub_key,
   access_key |-> access_key]

\* `if let StateRecord::Account { .. } = record` with `record_account_id ==
\* account_id`
IsAccountOf(record, account_id) ==
  record.kind = "Account" /\ record.account_id = account_id

\* add_contract that stops at the first Account record of the account
add_contract_first_match(records, account_id, code) ==
  LET h == hash(code)
      found == {i \in 1..Len(records) : IsAccountOf(records[i], account_id)}
      first == CHOOSE i \in found : \A j \in found : i <= j
      updated == [i \in 1..Len(records) |->
                   IF found # {} /\ i = first
                   THEN [records[i] EXCEPT !.account = set_code_hash(@, h)]
                   ELSE records[i]]
      with_account == IF found # {} THEN updated
                      ELSE Append(updated, StateRecordAccount(account_id, AccountNew(0, 0, 0, h, 0)))
  IN Append(with_account, StateRecordContract(account_id, code))

\* add_contract: the records after the call
add_contract(records, account_id, code) ==
  LET h == hash(code)
      is_account_record_found == \E i \in 1..Len(records) : IsAccountOf(records[i], account_id)
      updated == [i \in 1..Len(records) |->
                   IF IsAccountOf(records[i], account_id)
                   THEN [records[i] EXCEPT !.account = set_code_hash(@, h)]
                   ELSE records[i]]
      with_account == IF is_account_record_found THEN updated
                      ELSE Append(updated, StateRecordAccount(account_id, AccountNew(0, 0, 0, h, 0)))
  IN Append(with_account, StateRecordContract(account_id, code))

\* add_account_with_access_key: the records after the call
add_account_with_access_key(records, account_id, balance, pub_key, access_key) ==
  LET with_account == Append(records,
                             StateRecordAccount(account_id,
                                                AccountNew(balance, 0, 0, DEFAULT_CODE_HASH, 0)))
  IN Append(with_account, StateRecordAccessKey(account_id, pub_key, access_key))

----------------------------------------------------------------------------
(* The caller's state: its identity sk (created once), the last call with *)
(* its outcome, and the public key and the signature the caller has kept   *)
(* from earlier calls, each with the call it came from.  SECP256K1 is the   *)
(* process-wide secp256k1 context and threads the threads that race for   *)
(* it; the caller itself runs every call from start to end.  genesis is   *)
(* the list of state records of the Genesis a test is building.           *)

VARIABLES sk, pk, sig, call, SECP256K1, threads, genesis

vars == <<sk, pk, sig, call, SECP256K1, threads, genesis>>

MaxKeys == 2
MaxMsgs == 2
NumThreads == 2

Threads == 1..NumThreads

\* a thread: where it is in its call (pc), the call, the state word it
\* loaded, the value it was handed, and whether it lost the race for the
\* initialization
ThreadIdle == [pc |-> "idle", op |-> "", curr |-> "", seen |-> "", lost |-> FALSE]

NoValue == [key_type |-> "NONE", data |-> <<>>]

\* src: "public_key", "empty" or "pk_try_from"
PkSlot(v, src) == [val |-> v, src |-> src]
\* src: "sign" (data: the signed bytes) or "from_parts"
SigSlot(v, src, data) == [val |-> v, src |-> src, data |-> data]

\* op: the operation; arg: its input; orig / src: the value an encoding
\* stands for and the call that made that value; ret: the outcome
MkCall(op, arg, orig, src, ret) ==
  [op |-> op, arg |-> arg, orig |-> orig, src |-> src, ret |-> ret]
Call(op, arg, ret) == MkCall(op, arg, NoValue, "", ret)

PublicKeyMakers == {"public_key", "empty", "pk_try_from"}
SignatureMakers == {"sign", "from_parts"}

\* the last call returned a value made by one of `makers`
Made(makers) == call.op \in makers /\ IsOk(call.ret)

Digest32(d) == [i \in 1..32 |-> (5 * i + d) % 256]

\* messages: empty, one byte short of and one byte beyond a digest, 32-byte
\* digests, and one too long for a 2048-bit modulus
DataInputs ==
  {<<>>, Fill(31, 1), Fill(33, 1), Fill(250, 1)} \cup {Digest32(d) : d \in 1..MaxMsgs}

\* raw public-key bytes handed to TryFrom: not a curve point / not DER
PublicKeyBytesInputs(kt) == {Pad(PublicKeyLength(kt), <<2>>), Zeros(PublicKeyLength(kt) - 1)}

\* raw signature blobs handed to from_parts
FromPartsInputs(kt) ==
  CASE kt = "ED25519" -> {Zeros(64), Pad(64, <<224>>), Zeros(63)}
    [] kt = "SECP256K1" -> {Zeros(65), Fill(65, 4), Zeros(32) \o Fill(32, 255) \o <<0>>}
    [] kt = "RSA2048" -> {Zeros(256), Zeros(255)}

\* the signature just made by sign with its last byte (the recovery id of a
\* secp256k1 signature) replaced by 4
Tampered ==
  IF Made({"sign"}) THEN {[call.ret.val.data EXCEPT ![Len(call.ret.val.data)] = 4]}
  ELSE {}

Init ==
  /\ \E kt \in KeyTypes, rnd \in 1..MaxKeys :
       /\ sk = from_random(kt, rnd)
       /\ call = Call("from_random", kt, Ok(from_random(kt, rnd)))
  /\ pk = PkSlot(NoValue, "")
  /\ sig = SigSlot(NoValue, "", <<>>)
  /\ SECP256K1 = LazyNew
  /\ threads = [t \in Threads |-> ThreadIdle]
  /\ genesis = <<>>

\* sk.public_key()
PublicKey ==
  /\ call' = Call("public_key", sk, public_key(sk))
  /\ SECP256K1' = IF KeyUsesContext(sk) THEN Force(SECP256K1) ELSE SECP256K1
  /\ UNCHANGED <<sk, pk, sig, threads, genesis>>

\* PublicKey::empty(kt)
Empty ==
  \E kt \in KeyTypes :
    /\ call' = Call("empty", kt, Ok(empty(kt)))
    /\ UNCHANGED <<sk, pk, sig, SECP256K1, threads, genesis>>

\* a public key built from raw bytes
PublicKeyFromBytes ==
  \E kt \in KeyTypes : \E bytes \in PublicKeyBytesInputs(kt) :
    /\ call' = Call("pk_try_from", bytes, PublicKeyTryFromBytes(kt, bytes))
    /\ UNCHANGED <<sk, pk, sig, SECP256K1, threads, genesis>>

\* sk.sign(data)
Sign ==
  \E data \in DataInputs :
    /\ call' = Call("sign", data, sign(sk, data))
    /\ SECP256K1' = IF KeyUsesContext(sk) THEN Force(SECP256K1) ELSE SECP256K1
    /\ UNCHANGED <<sk, pk, sig, threads, genesis>>

\* Signature::from_parts(kt, bytes); orig: the two parts
FromParts ==
  \E kt \in KeyTypes : \E bytes \in FromPartsInputs(kt) \cup Tampered :
    /\ call' = MkCall("from_parts", bytes, [key_type |-> kt, data |-> bytes], "",
                      from_parts(kt, bytes))
    /\ UNCHANGED <<sk, pk, sig, SECP256K1, threads, genesis>>

\* the caller keeps the public key the last call returned
KeepPublicKey ==
  /\ Made(PublicKeyMakers)
  /\ pk' = PkSlot(call.ret.val, call.op)
  /\ UNCHANGED <<sk, sig, call, SECP256K1, threads, genesis>>

\* the caller keeps the signature the last call returned
KeepSignature ==
  /\ Made(SignatureMakers)
  /\ sig' = SigSlot(call.ret.val, call.op, IF call.op = "sign" THEN call.arg ELSE <<>>)
  /\ UNCHANGED <<sk, pk, call, SECP256K1, threads, genesis>>

\* sig.verify(data, &pk)
Verify ==
  /\ pk.val # NoValue
  /\ sig.val # NoValue
  /\ \E data \in DataInputs :
       /\ call' = Call("verify", [sig |-> sig, data |-> data, pk |-> pk],
                       verify(sig.val, data, pk.val))
       /\ SECP256K1' = IF VerifyUsesContext(sig.val, data, pk.val) THEN Force(SECP256K1)
                       ELSE SECP256K1
       /\ UNCHANGED <<sk, pk, sig, threads, genesis>>

Next ==
  \/ PublicKey
  \/ Empty
  \/ PublicKeyFromBytes
  \/ Sign
  \/ FromParts
  \/ KeepPublicKey
  \/ KeepSignature
  \/ Verify

Spec == Init /\ [][Next]_vars

----------------------------------------------------------------------------
(* The binary codec.                                                       *)

\* byte strings handed to try_from_slice: empty, a lone tag, an unknown tag,
\* short payloads, Ed25519 signatures around the top-three-bits boundary, a
\* trailing byte
WireInputs ==
  { <<>>, <<0>>, <<3>> \o Zeros(32), <<3>> \o Zeros(64), <<1>> \o Zeros(10),
    <<2>> \o Zeros(255), <<0>> \o Zeros(32), <<1>> \o Zeros(65),
    <<0>> \o Pad(64, <<31>>), <<0>> \o Pad(64, <<32>>), <<0>> \o Pad(64, <<224>>),
    <<0>> \o Zeros(65) }

\* borsh::to_vec(&pk) of the public key just made
SerializePublicKey ==
  /\ Made(PublicKeyMakers)
  /\ call' = MkCall("pk_serialize", call.ret.val, NoValue, call.op,
                    Ok(PublicKeySerialize(call.ret.val)))
  /\ UNCHANGED <<sk, pk, sig, SECP256K1, threads, genesis>>

\* borsh::to_vec(&sig) of the signature just made
SerializeSignature ==
  /\ Made(SignatureMakers)
  /\ call' = MkCall("sig_serialize", call.ret.val, NoValue, call.op,
                    Ok(SignatureSerialize(call.ret.val)))
  /\ UNCHANGED <<sk, pk, sig, SECP256K1, threads, genesis>>

\* PublicKey::try_from_slice, of the bytes just written or of outside bytes
DeserializePublicKey ==
  /\ \/ /\ call.op = "pk_serialize"
        /\ call' = MkCall("pk_try_from_slice", call.ret.val, call.arg, call.src,
                          PublicKeyTryFromSlice(call.ret.val))
     \/ \E bytes \in WireInputs :
          call' = MkCall("pk_try_from_slice", bytes, NoValue, "input",
                         PublicKeyTryFromSlice(bytes))
  /\ UNCHANGED <<sk, pk, sig, SECP256K1, threads, genesis>>

\* Signature::try_from_slice, of the bytes just written or of outside bytes
DeserializeSignature ==
  /\ \/ /\ call.op = "sig_serialize"
        /\ call' = MkCall("sig_try_from_slice", call.ret.val, call.arg, call.src,
                          SignatureTryFromSlice(call.ret.val))
     \/ \E bytes \in WireInputs :
          call' = MkCall("sig_try_from_slice", bytes, NoValue, "input",
                         SignatureTryFromSlice(bytes))
  /\ UNCHANGED <<sk, pk, sig, SECP256K1, threads, genesis>>

\* pk.len() of the public key just made
PublicKeyLen ==
  /\ Made(PublicKeyMakers)
  /\ call' = MkCall("pk_len", call.ret.val, NoValue, call.op, Ok(len(call.ret.val)))
  /\ UNCHANGED <<sk, pk, sig, SECP256K1, threads, genesis>>

NextBinary ==
  \/ PublicKey
  \/ Empty
  \/ PublicKeyFromBytes
  \/ Sign
  \/ FromParts
  \/ SerializePublicKey
  \/ SerializeSignature
  \/ DeserializePublicKey
  \/ DeserializeSignature
  \/ PublicKeyLen

SpecBinary == Init /\ [][NextBinary]_vars

----------------------------------------------------------------------------
(* The textual codec.                                                      *)

\* texts handed to from_str: base58 payloads without an algorithm prefix (32,
\* 64 and 65 bytes long, sparse and dense), a character outside the alphabet,
\* a payload of the wrong length, and a text with a second colon
TextInputs ==
  { Bs58Encode(Pad(32, <<5>>)), Bs58Encode(Fill(32, 7)), Bs58Encode(Pad(64, <<9>>)),
    Bs58Encode(Pad(65, <<1, 2>>)), <<48>>, <<49, 49>>,
    STR_ED25519 \o <<COLON, 49, COLON, 49>> }

\* the calls that return a public key / a signature, parsing included
PublicKeySources == PublicKeyMakers \cup {"pk_from_str"}
SignatureSources == SignatureMakers \cup {"sig_from_str"}

\* pk.to_string() of the public key just made or parsed
DisplayPublicKey ==
  /\ Made(PublicKeySources)
  /\ call' = MkCall("pk_display", call.ret.val, NoValue, call.op,
                    PublicKeyDisplay(call.ret.val))
  /\ UNCHANGED <<sk, pk, sig, SECP256K1, threads, genesis>>

\* sk.to_string(), of the caller's key or of the secret key just parsed
DisplaySecretKey ==
  /\ \/ call' = MkCall("sk_display", sk, NoValue, "from_random", SecretKeyDisplay(sk))
     \/ /\ Made({"sk_from_str"})
        /\ call' = MkCall("sk_display", call.ret.val, NoValue, call.op,
                          SecretKeyDisplay(call.ret.val))
  /\ UNCHANGED <<sk, pk, sig, SECP256K1, threads, genesis>>

\* sig.to_string() of the signature just made or parsed
DisplaySignature ==
  /\ Made(SignatureSources)
  /\ call' = MkCall("sig_display", call.ret.val, NoValue, call.op,
                    SignatureDisplay(call.ret.val))
  /\ UNCHANGED <<sk, pk, sig, SECP256K1, threads, genesis>>

\* the last call parsed, as `op`, an outside text that has no colon
ParsedLegacy(op) ==
  call.op = op /\ call.src = "input" /\ FirstIndexOf(call.arg, COLON) = 0

WithEd25519Prefix(text) == STR_ED25519 \o <<COLON>> \o text

\* PublicKey::from_str: of the text just written, of an outside text, or of
\* the colon-less text just parsed with "ed25519:" put in front
ParsePublicKey ==
  /\ \/ /\ call.op = "pk_display" /\ IsOk(call.ret)
        /\ call' = MkCall("pk_from_str", call.ret.val, call.arg, call.src,
                          PublicKeyFromStr(call.ret.val))
     \/ \E text \in TextInputs :
          call' = MkCall("pk_from_str", text, NoValue, "input", PublicKeyFromStr(text))
     \/ /\ ParsedLegacy("pk_from_str")
        /\ call' = MkCall("pk_from_str", WithEd25519Prefix(call.arg), call.ret, "prefixed",
                          PublicKeyFromStr(WithEd25519Prefix(call.arg)))
  /\ UNCHANGED <<sk, pk, sig, SECP256K1, threads, genesis>>

\* SecretKey::from_str
ParseSecretKey ==
  /\ \/ /\ call.op = "sk_display" /\ IsOk(call.ret)
        /\ call' = MkCall("sk_from_str", call.ret.val, call.arg, call.src,
                          SecretKeyFromStr(call.ret.val))
     \/ \E text \in TextInputs :
          call' = MkCall("sk_from_str", text, NoValue, "input", SecretKeyFromStr(text))
     \/ /\ ParsedLegacy("sk_from_str")
        /\ call' = MkCall("sk_from_str", WithEd25519Prefix(call.arg), call.ret, "prefixed",
                          SecretKeyFromStr(WithEd25519Prefix(call.arg)))
  /\ UNCHANGED <<sk, pk, sig, SECP256K1, threads, genesis>>

\* Signature::from_str
ParseSignature ==
  /\ \/ /\ call.op = "sig_display" /\ IsOk(call.ret)
        /\ call' = MkCall("sig_from_str", call.ret.val, call.arg, call.src,
                          SignatureFromStr(call.ret.val))
     \/ \E text \in TextInputs :
          call' = MkCall("sig_from_str", text, NoValue, "input", SignatureFromStr(text))
     \/ /\ ParsedLegacy("sig_from_str")
        /\ call' = MkCall("sig_from_str", WithEd25519Prefix(call.arg), call.ret, "prefixed",
                          SignatureFromStr(WithEd25519Prefix(call.arg)))
  /\ UNCHANGED <<sk, pk, sig, SECP256K1, threads, genesis>>

NextText ==
  \/ PublicKey
  \/ Empty
  \/ PublicKeyFromBytes
  \/ Sign
  \/ FromParts
  \/ DisplayPublicKey
  \/ DisplaySecretKey
  \/ DisplaySignature
  \/ ParsePublicKey
  \/ ParseSecretKey
  \/ ParseSignature

SpecText == Init /\ [][NextText]_vars

----------------------------------------------------------------------------
(* Base58 payloads: the Bs58 Display helper, the fixed-length decode, and  *)
(* key / signature texts assembled from an algorithm name and a payload.   *)

\* byte strings handed to Bs58: empty, shorter and longer than every fixed
\* length, the fixed lengths themselves, a PKCS#8 document, and slices at
\* the 2048-byte limit of the helper
PayloadInputs ==
  { <<>>, Fill(18, 3), Fill(31, 255), Zeros(32), Fill(32, 7), Fill(33, 1),
    Pad(64, <<9>>), Fill(65, 200), RsaPkcs8Der([bits |-> 2048, id |-> 1]),
    Zeros(BS58_BUF_LEN), Pad(BS58_BUF_LEN, Fill(8, 255)) }

\* the N of decode_bs58::<N>
DecodeLengths == {ED25519_PUBLIC_KEY_LENGTH, ED25519_KEYPAIR_LENGTH, SECP256K1_SIGNATURE_LENGTH}

\* characters outside the alphabet: '0' and a non-ASCII byte
BadChars == {48, 200}

\* the last call wrote the base58 text of call.arg
Encoded == call.op = "bs58_display" /\ IsOk(call.ret)

\* Bs58(bytes).to_string(), the first call of the caller: the calls below
\* depend on nothing but the text it wrote
EncodePayload ==
  /\ call.op = "from_random"
  /\ \E bytes \in PayloadInputs :
       call' = Call("bs58_display", bytes, Bs58Display(bytes))
  /\ UNCHANGED <<sk, pk, sig, SECP256K1, threads, genesis>>

\* decode_bs58::<N> of the text just written
DecodeFixed ==
  /\ Encoded
  /\ \E N \in DecodeLengths :
       call' = MkCall("decode_bs58", [N |-> N, encoded |-> call.ret.val], call.arg,
                      "encoded", decode_bs58(N, call.ret.val))
  /\ UNCHANGED <<sk, pk, sig, SECP256K1, threads, genesis>>

\* decode_bs58::<N> of the text just written with its first or its last
\* character replaced by one outside the alphabet
DecodeCorrupted ==
  /\ Encoded /\ Len(call.ret.val) > 0
  /\ \E N \in DecodeLengths, c \in BadChars :
       \/ LET text == [call.ret.val EXCEPT ![1] = c]
          IN call' = MkCall("decode_bs58", [N |-> N, encoded |-> text], call.arg,
                            "first_char", decode_bs58(N, text))
       \/ LET text == [call.ret.val EXCEPT ![Len(call.ret.val)] = c]
          IN call' = MkCall("decode_bs58", [N |-> N, encoded |-> text], call.arg,
                            "last_char", decode_bs58(N, text))
  /\ UNCHANGED <<sk, pk, sig, SECP256K1, threads, genesis>>

\* "<name>:<text just written>"
Tagged(kt) == KeyTypeDisplay(kt) \o <<COLON>> \o call.ret.val

\* from_str of the three types on the text just written with an algorithm
\* name in front; orig: the declared algorithm and the payload bytes
ParseTagged ==
  /\ Encoded
  /\ \E kt \in KeyTypes :
       \/ call' = MkCall("pk_from_str", Tagged(kt), [key_type |-> kt, data |-> call.arg],
                         "tagged", PublicKeyFromStr(Tagged(kt)))
       \/ call' = MkCall("sk_from_str", Tagged(kt), [key_type |-> kt, data |-> call.arg],
                         "tagged", SecretKeyFromStr(Tagged(kt)))
       \/ call' = MkCall("sig_from_str", Tagged(kt), [key_type |-> kt, data |-> call.arg],
                         "tagged", SignatureFromStr(Tagged(kt)))
  /\ UNCHANGED <<sk, pk, sig, SECP256K1, threads, genesis>>

NextBase58 ==
  \/ EncodePayload
  \/ DecodeFixed
  \/ DecodeCorrupted
  \/ ParseTagged

SpecBase58 == Init /\ [][NextBase58]_vars

----------------------------------------------------------------------------
(* The capped decode parse_bs58_data and the rsa2048 secret-key text that  *)
(* goes through it.                                                        *)

\* the payloads above, one with leading zeros before a dense byte, and one a
\* byte longer than the cap of the RSA arm
CappedPayloads == PayloadInputs \cup {<<0, 0, 255>>, Zeros(RSA_SECRET_KEY_MAX_LEN + 1)}

\* the max_len of parse_bs58_data: the cap of the RSA arm and two small ones
CapLengths == {ED25519_PUBLIC_KEY_LENGTH, ED25519_KEYPAIR_LENGTH, RSA_SECRET_KEY_MAX_LEN}

IsParseCapped(src) == call.op = "parse_bs58_data" /\ call.src \in src

\* parse_bs58_data(max_len, text) of the base58 text of a payload, the first
\* call of the caller; orig: the payload
ParseCapped ==
  /\ call.op = "from_random"
  /\ \E bytes \in CappedPayloads, max_len \in CapLengths :
       LET text == Bs58Encode(bytes)
       IN call' = MkCall("parse_bs58_data", [max_len |-> max_len, encoded |-> text], bytes,
                         "encoded", parse_bs58_data(max_len, text))
  /\ UNCHANGED <<sk, pk, sig, SECP256K1, threads, genesis>>

\* the same call on the text with its first or its last character replaced
\* by one outside the alphabet
ParseCappedCorrupted ==
  /\ IsParseCapped({"encoded"}) /\ Len(call.arg.encoded) > 0
  /\ \E c \in BadChars :
       \/ LET text == [call.arg.encoded EXCEPT ![1] = c]
          IN call' = MkCall("parse_bs58_data", [call.arg EXCEPT !.encoded = text], call.orig,
                            "first_char", parse_bs58_data(call.arg.max_len, text))
       \/ LET text == [call.arg.encoded EXCEPT ![Len(call.arg.encoded)] = c]
          IN call' = MkCall("parse_bs58_data", [call.arg EXCEPT !.encoded = text], call.orig,
                            "last_char", parse_bs58_data(call.arg.max_len, text))
  /\ UNCHANGED <<sk, pk, sig, SECP256K1, threads, genesis>>

\* SecretKey::from_str of "rsa2048:" and the text of the last call; orig: the
\* payload, src: how the text was made
ParseRsaSecretKey ==
  /\ IsParseCapped({"encoded", "first_char", "last_char"})
  /\ LET text == STR_RSA2048 \o <<COLON>> \o call.arg.encoded
     IN call' = MkCall("sk_from_str", text, call.orig, call.src, SecretKeyFromStr(text))
  /\ UNCHANGED <<sk, pk, sig, SECP256K1, threads, genesis>>

NextCapped ==
  \/ ParseCapped
  \/ ParseCappedCorrupted
  \/ ParseRsaSecretKey

SpecCapped == Init /\ [][NextCapped]_vars

----------------------------------------------------------------------------
(* Algorithm names: KeyType::to_string, KeyType::from_str, and key and     *)
(* signature texts with a name in front of a well-formed payload.          *)

\* lowercase names: the three algorithms, the empty name, and near misses
\* ("ed2551", "rsa2048 ", "rsa", "ed25519x", "near")
NameInputs ==
  { STR_ED25519, STR_SECP256K1, STR_RSA2048, <<>>,
    <<101, 100, 50, 53, 53, 49>>, STR_RSA2048 \o <<32>>, <<114, 115, 97>>,
    STR_ED25519 \o <<120>>, <<110, 101, 97, 114>> }

\* which letters of a name are written in upper case: none, the first, the
\* even positions, all
UpperAt(name) ==
  {{}, {1}, {i \in 1..Len(name) : i % 2 = 0}, 1..Len(name)}

\* the name with the letters at the positions `at` in upper case
WithUppercase(name, at) ==
  [i \in 1..Len(name) |->
     IF i \in at /\ name[i] >= 97 /\ name[i] <= 122 THEN name[i] - 32 ELSE name[i]]

\* key_type.to_string()
DisplayKeyType ==
  /\ \E kt \in KeyTypes : call' = Call("kt_display", kt, Ok(KeyTypeDisplay(kt)))
  /\ UNCHANGED <<sk, pk, sig, SECP256K1, threads, genesis>>

\* KeyType::from_str of the text just written, or of a name in some mix of
\* cases (orig: the name in lower case)
ParseKeyType ==
  /\ \/ /\ call.op = "kt_display"
        /\ call' = MkCall("kt_from_str", call.ret.val, call.arg, "kt_display",
                          KeyTypeFromStr(call.ret.val))
     \/ \E name \in NameInputs : \E at \in UpperAt(name) :
          call' = MkCall("kt_from_str", WithUppercase(name, at), name, "name",
                         KeyTypeFromStr(WithUppercase(name, at)))
  /\ UNCHANGED <<sk, pk, sig, SECP256K1, threads, genesis>>

\* "<name>:<base58 of 32 bytes>"
Named(name) == name \o <<COLON>> \o Bs58Encode(Fill(32, 7))

\* from_str of the three types on a text that begins with the name just
\* handed to KeyType::from_str
ParseNamed ==
  /\ call.op = "kt_from_str" /\ call.src = "name"
  /\ \/ call' = MkCall("pk_from_str", Named(call.arg), call.orig, "named",
                       PublicKeyFromStr(Named(call.arg)))
     \/ call' = MkCall("sk_from_str", Named(call.arg), call.orig, "named",
                       SecretKeyFromStr(Named(call.arg)))
     \/ call' = MkCall("sig_from_str", Named(call.arg), call.orig, "named",
                       SignatureFromStr(Named(call.arg)))
  /\ UNCHANGED <<sk, pk, sig, SECP256K1, threads, genesis>>

NextKeyType ==
  \/ DisplayKeyType
  \/ ParseKeyType
  \/ ParseNamed

SpecKeyType == Init /\ [][NextKeyType]_vars

----------------------------------------------------------------------------
(* Secp256K1Signature: recover and check_signature_values, on signatures   *)
(* made by sign and by from_parts.                                         *)

\* floor(b / 2) of a big-endian number
HalfBE(b) ==
  [i \in 1..Len(b) |-> (b[i] \div 2) + (IF i > 1 /\ b[i - 1] % 2 = 1 THEN 128 ELSE 0)]

\* b + d for a small d that stays within the last byte
AddBE(b, d) == [b EXCEPT ![Len(b)] = @ + d]

MaxOffset == 2

\* a 256-bit value named by its distance from the curve order N, from
\* floor(N / 2), or from zero
NearValues ==
  [base : {"N", "HALF"}, off : (0 - MaxOffset)..MaxOffset] \cup [base : {"ZERO"}, off : 0..1]

ValueBytes(v) ==
  CASE v.base = "N" -> AddBE(SECP256K1_N, v.off)
    [] v.base = "HALF" -> AddBE(HalfBE(SECP256K1_N), v.off)
    [] v.base = "ZERO" -> AddBE(Zeros(32), v.off)

\* recovery-id bytes: one in range, one out of range
RecoveryBytes == {0, 7}

\* Signature::from_parts(SECP256K1, r || s || v) for r and s near the limits,
\* the first call of the caller: it depends on nothing that came before
SignatureFromValues ==
  /\ call.op = "from_random"
  /\ \E r \in NearValues, s \in NearValues, v \in RecoveryBytes :
       LET bytes == ValueBytes(r) \o ValueBytes(s) \o <<v>>
       IN call' = MkCall("from_parts", bytes, [r |-> r, s |-> s, v |-> v], "values",
                         from_parts("SECP256K1", bytes))
  /\ UNCHANGED <<sk, pk, sig, SECP256K1, threads, genesis>>

\* the last call returned a Secp256k1 signature
MadeSecpSignature == Made(SignatureMakers) /\ call.ret.val.key_type = "SECP256K1"

\* signature.recover(msg) on the inner Secp256K1Signature; orig: the input
\* of the call that made the signature
Recover ==
  /\ MadeSecpSignature
  /\ \E d \in 1..MaxMsgs :
       call' = MkCall("recover", [sig |-> call.ret.val.data, msg |-> Digest32(d)],
                      call.arg, IF call.src = "values" THEN "values" ELSE call.op,
                      recover(call.ret.val.data, Digest32(d)))
  /\ SECP256K1' = IF RecoverUsesContext(call.ret.val.data) THEN Force(SECP256K1)
                  ELSE SECP256K1
  /\ UNCHANGED <<sk, pk, sig, threads, genesis>>

\* signature.check_signature_values(reject_upper); orig: the names of r, s
\* and v when the signature was built from them
CheckSignatureValues ==
  /\ MadeSecpSignature
  /\ \E reject_upper \in BOOLEAN :
       call' = MkCall("check_signature_values",
                      [sig |-> call.ret.val.data, reject_upper |-> reject_upper],
                      call.orig, IF call.src = "values" THEN "values" ELSE call.op,
                      Ok(check_signature_values(call.ret.val.data, reject_upper)))
  /\ UNCHANGED <<sk, pk, sig, SECP256K1, threads, genesis>>

NextSecp ==
  \/ Sign
  \/ FromParts
  \/ SignatureFromValues
  \/ Recover
  \/ CheckSignatureValues

SpecSecp == Init /\ [][NextSecp]_vars

----------------------------------------------------------------------------
(* Every way to a Signature value: sign, from_parts, the text form and the *)
(* binary form.                                                            *)

NextSignature ==
  \/ Sign
  \/ FromParts
  \/ SerializeSignature
  \/ DeserializeSignature
  \/ DisplaySignature
  \/ ParseSignature

SpecSignature == Init /\ [][NextSignature]_vars

----------------------------------------------------------------------------
(* The two codecs of Signature side by side: a signature that from_parts or *)
(* from_str returned is written in the binary form and read back.          *)

\* borsh::to_vec(&sig) of the signature just parsed from a text
SerializeParsedSignature ==
  /\ call.op = "sig_from_str" /\ IsOk(call.ret)
  /\ call' = MkCall("sig_serialize", call.ret.val, NoValue, "sig_from_str",
                    Ok(SignatureSerialize(call.ret.val)))
  /\ UNCHANGED <<sk, pk, sig, SECP256K1, threads, genesis>>

NextCodecs ==
  \/ Sign
  \/ FromParts
  \/ DisplaySignature
  \/ ParseSignature
  \/ SerializeSignature
  \/ SerializeParsedSignature
  \/ DeserializeSignature

SpecCodecs == Init /\ [][NextCodecs]_vars

----------------------------------------------------------------------------
(* Secret keys: the text form and equality.                                *)

\* the secret halves of the Ed25519 keys from_random can return
SecretHalves ==
  {SubSeq(from_random("ED25519", rnd).data, 1, ED25519_SECRET_KEY_LENGTH) : rnd \in 1..MaxKeys}

\* trailing halves: the derived public keys, and two that are not derived
PublicHalves ==
  {EdDerivePublic(secret) : secret \in SecretHalves}
    \cup {Zeros(ED25519_PUBLIC_KEY_LENGTH), Fill(ED25519_PUBLIC_KEY_LENGTH, 9)}

\* SecretKey::from_str of "ed25519:<base58 of secret || public>", the first
\* call of the caller; orig: the key the text stands for
ParseSecretKeyHalves ==
  /\ call.op = "from_random"
  /\ \E secret \in SecretHalves, public \in PublicHalves :
       LET text == WithEd25519Prefix(Bs58Encode(secret \o public))
       IN call' = MkCall("sk_from_str", text, MkSecretKey("ED25519", secret \o public),
                         "halves", SecretKeyFromStr(text))
  /\ UNCHANGED <<sk, pk, sig, SECP256K1, threads, genesis>>

\* sk == parsed, for the caller's key and the secret key just parsed
CompareSecretKeys ==
  /\ Made({"sk_from_str"})
  /\ call' = MkCall("sk_eq", [a |-> sk, b |-> call.ret.val], call.orig, call.src,
                    Ok(SecretKeyEq(sk, call.ret.val)))
  /\ UNCHANGED <<sk, pk, sig, SECP256K1, threads, genesis>>

NextSecretKey ==
  \/ DisplaySecretKey
  \/ ParseSecretKey
  \/ ParseSecretKeyHalves
  \/ CompareSecretKeys

SpecSecretKey == Init /\ [][NextSecretKey]_vars

----------------------------------------------------------------------------
(* Equal secret keys and the public keys derived from them.                *)

\* a.public_key() and b.public_key() of the two keys just compared; the
\* outcome keeps what a == b returned
DerivePublicKeys ==
  /\ call.op = "sk_eq"
  /\ call' = MkCall("public_keys", call.arg, call.orig, call.src,
                    Ok([eq |-> call.ret.val,
                        a |-> public_key(call.arg.a),
                        b |-> public_key(call.arg.b)]))
  /\ SECP256K1' = IF KeyUsesContext(call.arg.a) \/ KeyUsesContext(call.arg.b)
                  THEN Force(SECP256K1) ELSE SECP256K1
  /\ UNCHANGED <<sk, pk, sig, threads, genesis>>

NextDerive ==
  \/ DisplaySecretKey
  \/ ParseSecretKey
  \/ ParseSecretKeyHalves
  \/ CompareSecretKeys
  \/ DerivePublicKeys

SpecDerive == Init /\ [][NextDerive]_vars

----------------------------------------------------------------------------
(* Secret keys that come from a text, put to use.                          *)

\* the modulus sizes of the PKCS#8 documents handed to from_str
RsaBitsInputs == {1024, PRIVTAE_KEY_DEFAULT_RSA_KEY_BITS}

\* SecretKey::from_str of "rsa2048:<base58 of a PKCS#8 document>", the first
\* call of the caller; orig: the key the document holds
ParseSecretKeyRsa ==
  /\ call.op = "from_random"
  /\ \E bits \in RsaBitsInputs, id \in 1..MaxKeys :
       LET key == [bits |-> bits, id |-> id]
           text == STR_RSA2048 \o <<COLON>> \o Bs58Encode(RsaPkcs8Der(key))
       IN call' = MkCall("sk_from_str", text, MkSecretKey("RSA2048", key), "pkcs8",
                         SecretKeyFromStr(text))
  /\ UNCHANGED <<sk, pk, sig, SECP256K1, threads, genesis>>

\* verify of what sign returned against what public_key returned, when both
\* returned
VerifyOwn(signed, data, public) ==
  IF IsOk(signed) /\ IsOk(public) THEN verify(signed.val, data, public.val)
  ELSE Err("not reached")

\* key.public_key(), key.sign(data) and signature.verify(data, &public_key)
\* for the secret key just parsed and a 32-byte data
UseParsedKey ==
  /\ Made({"sk_from_str"})
  /\ \E d \in 1..MaxMsgs :
       LET key == call.ret.val
           data == Digest32(d)
       IN call' = MkCall("use", [key |-> key, data |-> data], call.orig, call.src,
                         Ok([public_key |-> public_key(key),
                             sign |-> sign(key, data),
                             verify |-> VerifyOwn(sign(key, data), data, public_key(key))]))
  /\ SECP256K1' = IF KeyUsesContext(call.ret.val) THEN Force(SECP256K1) ELSE SECP256K1
  /\ UNCHANGED <<sk, pk, sig, threads, genesis>>

NextUse ==
  \/ DisplaySecretKey
  \/ ParseSecretKey
  \/ ParseSecretKeyHalves
  \/ ParseSecretKeyRsa
  \/ UseParsedKey

SpecUse == Init /\ [][NextUse]_vars

----------------------------------------------------------------------------
(* Public keys as map keys: equality, ordering and hashing.                *)

\* raw key bytes that differ in the first byte, in the last byte and in both
OrderBytes(kt) ==
  LET n == PublicKeyLength(kt)
  IN {Zeros(n), Pad(n, <<2>>), <<1>> \o Zeros(n - 1), <<1>> \o Pad(n - 1, <<2>>)}

OrderKeys == UNION {{MkPublicKey(kt, bytes) : bytes \in OrderBytes(kt)} : kt \in KeyTypes}

\* a public key built from raw bytes of the right length
PublicKeyFromOrderBytes ==
  \E kt \in KeyTypes : \E bytes \in OrderBytes(kt) :
    /\ call' = Call("pk_try_from", bytes, PublicKeyTryFromBytes(kt, bytes))
    /\ UNCHANGED <<sk, pk, sig, SECP256K1, threads, genesis>>

\* a == b, a.cmp(&b) and the hashes of the kept key a and the key b just
\* made, with the comparisons against a third key c
ComparePublicKeys ==
  /\ pk.val # NoValue
  /\ Made(PublicKeyMakers)
  /\ \E c \in OrderKeys :
       LET a == pk.val
           b == call.ret.val
       IN call' = Call("pk_cmp", [a |-> a, b |-> b, c |-> c],
                       Ok([eq |-> PublicKeyEq(a, b),
                           ab |-> PublicKeyCmp(a, b),
                           ba |-> PublicKeyCmp(b, a),
                           bc |-> PublicKeyCmp(b, c),
                           ac |-> PublicKeyCmp(a, c),
                           hash_a |-> PublicKeyHash(a),
                           hash_b |-> PublicKeyHash(b)]))
  /\ UNCHANGED <<sk, pk, sig, SECP256K1, threads, genesis>>

NextPublicKey ==
  \/ PublicKey
  \/ Empty
  \/ PublicKeyFromOrderBytes
  \/ KeepPublicKey
  \/ ComparePublicKeys

SpecPublicKey == Init /\ [][NextPublicKey]_vars

----------------------------------------------------------------------------
(* A test that fills a Genesis with accounts and contracts.                *)

MaxRecords == 6

\* alice_account(), bob_account()
AccountIds == {"alice", "bob"}

CodeInputs == {<<1>>, <<2, 3>>}

BalanceInputs == {0, 10}

\* add_contract(&mut genesis, &account_id, code); the call keeps the records
\* it found
AddContract ==
  /\ Len(genesis) + 2 <= MaxRecords
  /\ \E account_id \in AccountIds, code \in CodeInputs :
       /\ genesis' = add_contract(genesis, account_id, code)
       /\ call' = Call("add_contract",
                       [records |-> genesis, account_id |-> account_id, code |-> code],
                       Ok(<<>>))
  /\ UNCHANGED <<sk, pk, sig, SECP256K1, threads>>

\* add_account_with_access_key(&mut genesis, account_id, balance, public_key,
\* access_key) with the public key of the caller's key
AddAccountWithAccessKey ==
  /\ Len(genesis) + 2 <= MaxRecords
  /\ IsOk(public_key(sk))
  /\ \E account_id \in AccountIds, balance \in BalanceInputs :
       /\ genesis' = add_account_with_access_key(genesis, account_id, balance,
                                                 public_key(sk).val, "full_access")
       /\ call' = Call("add_account_with_access_key",
                       [records |-> genesis, account_id |-> account_id, balance |-> balance],
                       Ok(<<>>))
  /\ UNCHANGED <<sk, pk, sig, SECP256K1, threads>>

NextGenesis ==
  \/ AddContract
  \/ AddAccountWithAccessKey

SpecGenesis == Init /\ [][NextGenesis]_vars

----------------------------------------------------------------------------
(* Threads whose calls dereference SECP256K1 at the same time.  Each step  *)
(* is one access to the cell, in the order of OnceCell::get_or_init and    *)
(* initialize_or_wait.                                                     *)

\* a thread enters sign, verify, recover or public_key at the point where
\* the call dereferences SECP256K1
BeginCall(t) ==
  /\ threads[t].pc = "idle"
  /\ \E op \in ContextUsers :
       threads' = [threads EXCEPT ![t] = [@ EXCEPT !.pc = "get", !.op = op]]
  /\ UNCHANGED <<sk, pk, sig, call, SECP256K1, genesis>>

\* OnceCell::get: the value when the state word says COMPLETE
Get(t) ==
  /\ threads[t].pc = "get"
  /\ threads' = [threads EXCEPT ![t] =
                   IF SECP256K1.state = "COMPLETE"
                   THEN [@ EXCEPT !.pc = "use", !.seen = SECP256K1.value]
                   ELSE [@ EXCEPT !.pc = "load"]]
  /\ UNCHANGED <<sk, pk, sig, call, SECP256K1, genesis>>

\* initialize_or_wait: load of the state word
Load(t) ==
  /\ threads[t].pc = "load"
  /\ threads' = [threads EXCEPT ![t] = [@ EXCEPT !.pc = "match", !.curr = SECP256K1.state]]
  /\ UNCHANGED <<sk, pk, sig, call, SECP256K1, genesis>>

\* (COMPLETE, _) => return
MatchComplete(t) ==
  /\ threads[t].pc = "match" /\ threads[t].curr = "COMPLETE"
  /\ threads' = [threads EXCEPT ![t] = [@ EXCEPT !.pc = "unchecked"]]
  /\ UNCHANGED <<sk, pk, sig, call, SECP256K1, genesis>>

\* (INCOMPLETE, Some(init)) => compare_exchange to RUNNING; on failure the
\* thread goes round the loop with the word it found
MatchIncomplete(t) ==
  /\ threads[t].pc = "match" /\ threads[t].curr = "INCOMPLETE"
  /\ IF CompareExchange(SECP256K1.state, threads[t].curr)
     THEN /\ SECP256K1' = [SECP256K1 EXCEPT !.state = "RUNNING"]
          /\ threads' = [threads EXCEPT ![t] = [@ EXCEPT !.pc = "init"]]
     ELSE /\ threads' = [threads EXCEPT ![t] =
                           [@ EXCEPT !.curr = SECP256K1.state, !.lost = TRUE]]
          /\ UNCHANGED SECP256K1
  /\ UNCHANGED <<sk, pk, sig, call, genesis>>

\* (RUNNING, _) => wait: the thread sleeps until the word has changed, then
\* loads it again
MatchRunning(t) ==
  /\ threads[t].pc = "match" /\ threads[t].curr = "RUNNING"
  /\ SECP256K1.state # "RUNNING"
  /\ threads' = [threads EXCEPT ![t] = [@ EXCEPT !.pc = "load", !.lost = TRUE]]
  /\ UNCHANGED <<sk, pk, sig, call, SECP256K1, genesis>>

\* the initializer: Secp256k1::new builds the context
RunInit(t) ==
  /\ threads[t].pc = "init"
  /\ SECP256K1' = [SECP256K1 EXCEPT !.inits = @ + 1]
  /\ threads' = [threads EXCEPT ![t] = [@ EXCEPT !.pc = "store"]]
  /\ UNCHANGED <<sk, pk, sig, call, genesis>>

\* *slot = Some(value): the write of the slot begins
StoreBegin(t) ==
  /\ threads[t].pc = "store"
  /\ SECP256K1' = [SECP256K1 EXCEPT !.value = "partial"]
  /\ threads' = [threads EXCEPT ![t] = [@ EXCEPT !.pc = "storing"]]
  /\ UNCHANGED <<sk, pk, sig, call, genesis>>

\* the write of the slot ends
StoreEnd(t) ==
  /\ threads[t].pc = "storing"
  /\ SECP256K1' = [SECP256K1 EXCEPT !.value = CONTEXT]
  /\ threads' = [threads EXCEPT ![t] = [@ EXCEPT !.pc = "complete"]]
  /\ UNCHANGED <<sk, pk, sig, call, genesis>>

\* Guard::drop: the state word becomes COMPLETE and the waiters are woken
Complete(t) ==
  /\ threads[t].pc = "complete"
  /\ SECP256K1' = [SECP256K1 EXCEPT !.state = "COMPLETE"]
  /\ threads' = [threads EXCEPT ![t] = [@ EXCEPT !.pc = "unchecked"]]
  /\ UNCHANGED <<sk, pk, sig, call, genesis>>

\* get_unchecked: the reference handed to the caller
GetUnchecked(t) ==
  /\ threads[t].pc = "unchecked"
  /\ threads' = [threads EXCEPT ![t] = [@ EXCEPT !.pc = "use", !.seen = SECP256K1.value]]
  /\ UNCHANGED <<sk, pk, sig, call, SECP256K1, genesis>>

\* the call works with the context through a shared reference and returns
UseContext(t) ==
  /\ threads[t].pc = "use"
  /\ threads' = [threads EXCEPT ![t] = [ThreadIdle EXCEPT !.lost = threads[t].lost]]
  /\ UNCHANGED <<sk, pk, sig, call, SECP256K1, genesis>>

NextLazy ==
  \/ \E t \in Threads : BeginCall(t)
  \/ \E t \in Threads : Get(t)
  \/ \E t \in Threads : Load(t)
  \/ \E t \in Threads : MatchComplete(t)
  \/ \E t \in Threads : MatchIncomplete(t)
  \/ \E t \in Threads : MatchRunning(t)
  \/ \E t \in Threads : RunInit(t)
  \/ \E t \in Threads : StoreBegin(t)
  \/ \E t \in Threads : StoreEnd(t)
  \/ \E t \in Threads : Complete(t)
  \/ \E t \in Threads : GetUnchecked(t)
  \/ \E t \in Threads : UseContext(t)

SpecLazy == Init /\ [][NextLazy]_vars

----------------------------------------------------------------------------
(* Sign / verify properties.                                               *)

\* C1: Signature::verify never panics and never returns an error: every call
\* completes with a boolean.
VerifyNeverPanics ==
  call.op = "verify" => IsOk(call.ret) /\ call.ret.val \in BOOLEAN

\* C2: cross-algorithm rejection: verify of a signature against a public key
\* of a different key type returns false, without a panic or an error.
CrossAlgorithmRejected ==
  (call.op = "verify" /\ key_type(call.arg.sig.val) # key_type(call.arg.pk.val))
    => call.ret = Ok(FALSE)

\* a secp256k1 signature made by sign was verified against an RSA key
CrossAlgorithmWitness ==
  /\ call.op = "verify"
  /\ call.arg.sig.src = "sign"
  /\ key_type(call.arg.sig.val) = "SECP256K1"
  /\ key_type(call.arg.pk.val) = "RSA2048"
  /\ call.ret = Ok(FALSE)

\* C3: sign/verify correctness: a signature made by sk.sign over a 32-byte
\* digest verifies against sk.public_key() over the same digest, and a
\* signature made by sign has the key type of sk.
SignVerifyCorrect ==
  /\ (call.op = "verify"
      /\ call.arg.pk.src = "public_key"
      /\ call.arg.sig.src = "sign"
      /\ call.arg.sig.data = call.arg.data
      /\ Len(call.arg.data) = 32)
       => call.ret = Ok(TRUE)
  /\ (call.op = "sign" /\ Len(call.arg) = 32)
       => IsOk(call.ret) /\ key_type(call.ret.val) = key_type(sk)

\* a secp256k1 signature over a digest was verified against the signer's key
SignVerifyWitness ==
  /\ call.op = "verify"
  /\ key_type(sk) = "SECP256K1"
  /\ call.arg.pk.src = "public_key"
  /\ call.arg.sig.src = "sign"
  /\ call.arg.sig.data = call.arg.data
  /\ Len(call.arg.data) = 32
  /\ call.ret = Ok(TRUE)

\* the steps of the Secp256k1 arm of verify that can fail
SecpBadRecId(c) == ~SecpRecoveryIdValid(c.arg.sig.val.data[65])
SecpBadCompact(c) == ~SecpFromCompactValid(SubSeq(c.arg.sig.val.data, 1, 64))
SecpBadMessage(c) == Len(c.arg.data) # 32
SecpBadPoint(c) == ~SecpPublicKeyFromSlice(<<4>> \o c.arg.pk.val.data)

IsSecpVerify(c) ==
  /\ c.op = "verify"
  /\ key_type(c.arg.sig.val) = "SECP256K1"
  /\ key_type(c.arg.pk.val) = "SECP256K1"

\* C4: in the Secp256k1 arm of verify an invalid recovery id, a compact r||s
\* the primitive rejects, data that is not 32 bytes long and a public key that
\* is not a curve point each give false, not an error or a panic.
SecpFailingStepIsFalse ==
  (IsSecpVerify(call)
   /\ (SecpBadRecId(call) \/ SecpBadCompact(call) \/ SecpBadMessage(call) \/ SecpBadPoint(call)))
    => call.ret = Ok(FALSE)

\* a signature made by sign, over its own digest, against the all-zero key:
\* only the reconstructed point is invalid
SecpFailingStepWitness ==
  /\ IsSecpVerify(call)
  /\ call.arg.sig.src = "sign"
  /\ call.arg.sig.data = call.arg.data
  /\ call.arg.pk.val = empty("SECP256K1")
  /\ ~SecpBadRecId(call) /\ ~SecpBadCompact(call) /\ ~SecpBadMessage(call)
  /\ SecpBadPoint(call)
  /\ call.ret = Ok(FALSE)

\* the other three failing steps, each alone
SecpRecIdOnlyReached ==
  /\ IsSecpVerify(call)
  /\ SecpBadRecId(call) /\ ~SecpBadCompact(call) /\ ~SecpBadMessage(call) /\ ~SecpBadPoint(call)
SecpCompactOnlyReached ==
  /\ IsSecpVerify(call)
  /\ ~SecpBadRecId(call) /\ SecpBadCompact(call) /\ ~SecpBadMessage(call) /\ ~SecpBadPoint(call)
SecpMessageOnlyReached ==
  /\ IsSecpVerify(call)
  /\ ~SecpBadRecId(call) /\ ~SecpBadCompact(call) /\ SecpBadMessage(call) /\ ~SecpBadPoint(call)

\* the X || Y of the caller's secp256k1 key
SignerPoint == SubSeq(SecpSerializeUncompressed(sk.data), 2, 65)

IsSecpSign == call.op = "sign" /\ key_type(sk) = "SECP256K1"

\* C21: signing with a Secp256k1 key treats data as a 32-byte digest: sign
\* produces no Signature when data is not 32 bytes long, and for 32-byte data
\* it produces a 65-byte signature whose first 64 bytes are the compact r||s
\* (the primitive accepts them as the signer's signature over data) and whose
\* last byte is the raw recovery id in 0..3, the one that recovers the
\* signer's key.
SecpSignDigestOnly ==
  IsSecpSign =>
    IF Len(call.arg) # SECP256K1_MESSAGE_SIZE THEN ~IsOk(call.ret)
    ELSE /\ IsOk(call.ret)
         /\ key_type(call.ret.val) = "SECP256K1"
         /\ Len(call.ret.val.data) = 65
         /\ SecpFromCompactValid(SubSeq(call.ret.val.data, 1, 64))
         /\ SecpVerifyEcdsa(call.arg, SubSeq(call.ret.val.data, 1, 64), SignerPoint)
         /\ call.ret.val.data[65] \in 0..3
         /\ SecpRecoverEcdsa(call.arg, SubSeq(call.ret.val.data, 1, 64),
                             call.ret.val.data[65]) = Ok(SignerPoint)

\* a Secp256k1 key signed a 32-byte digest
SecpSignDigestWitness ==
  /\ IsSecpSign
  /\ Len(call.arg) = SECP256K1_MESSAGE_SIZE
  /\ IsOk(call.ret)
  /\ Len(call.ret.val.data) = 65

\* a Secp256k1 key was asked to sign 31, 33 and 0 bytes
SecpSignShortReached == IsSecpSign /\ Len(call.arg) = 31 /\ IsPanic(call.ret)
SecpSignLongReached == IsSecpSign /\ Len(call.arg) = 33 /\ IsPanic(call.ret)
SecpSignEmptyReached == IsSecpSign /\ Len(call.arg) = 0 /\ IsPanic(call.ret)

----------------------------------------------------------------------------
(* Binary codec properties.                                                *)

\* C5: binary round trip: decoding the encoding of a public key derived from
\* a generated secret key, or of a signature produced by sign, gives back an
\* equal value.
BinaryRoundTrip ==
  /\ (call.op = "pk_try_from_slice" /\ call.src = "public_key") => call.ret = Ok(call.orig)
  /\ (call.op = "sig_try_from_slice" /\ call.src = "sign") => call.ret = Ok(call.orig)

\* the encoding of a secp256k1 signature made by sign was decoded
BinaryRoundTripWitness ==
  /\ call.op = "sig_try_from_slice"
  /\ call.src = "sign"
  /\ key_type(call.orig) = "SECP256K1"
  /\ call.ret = Ok(call.orig)

\* the same for an Ed25519 signature and for a derived public key
BinaryRoundTripEdReached ==
  /\ call.op = "sig_try_from_slice"
  /\ call.src = "sign"
  /\ key_type(call.orig) = "ED25519"
BinaryRoundTripPkReached ==
  /\ call.op = "pk_try_from_slice"
  /\ call.src = "public_key"
  /\ key_type(call.orig) = "RSA2048"

\* a 65-byte input with tag byte 0 given to Signature::try_from_slice
IsEdSignatureWire(c) ==
  c.op = "sig_try_from_slice" /\ Len(c.arg) = 65 /\ c.arg[1] = 0

\* C7: decoding an Ed25519 signature (tag 0, 64 bytes) fails with a data-format
\* error when one of the top three bits of the last byte is set (the byte is
\* 32 or more), and gives the signature with those 64 bytes otherwise.
Ed25519TopBitsRejected ==
  IsEdSignatureWire(call) =>
    IF call.arg[65] >= 32
    THEN IsErr(call.ret) /\ call.ret.val.error = "InvalidData"
    ELSE call.ret = Ok(MkSignature("ED25519", SubSeq(call.arg, 2, 65)))

\* the smallest last byte with a top bit set was rejected
Ed25519TopBitsWitness ==
  /\ IsEdSignatureWire(call)
  /\ call.arg[65] = 32
  /\ IsErr(call.ret)

\* the largest last byte with the top bits clear was accepted
Ed25519TopBitsClearReached ==
  /\ IsEdSignatureWire(call)
  /\ call.arg[65] = 31
  /\ IsOk(call.ret)

\* the payload lengths the wire format fixes
WirePublicKeyLength(kt) ==
  CASE kt = "ED25519" -> 32 [] kt = "SECP256K1" -> 64 [] kt = "RSA2048" -> 294
WireSignatureLength(kt) ==
  CASE kt = "ED25519" -> 64 [] kt = "SECP256K1" -> 65 [] kt = "RSA2048" -> 256

\* C8: the binary encoding of a public key or a signature is the tag byte
\* (0, 1, 2) followed by the raw payload, 1 + 32/64/294 bytes for a public key
\* and 1 + 64/65/256 for a signature, and pk.len() is the number of bytes the
\* encoding of pk has.
BinaryEncodingIsTagAndPayload ==
  /\ call.op = "pk_serialize" =>
       /\ call.ret.val = <<KeyTypeTag(key_type(call.arg))>> \o call.arg.data
       /\ Len(call.ret.val) = 1 + WirePublicKeyLength(key_type(call.arg))
  /\ call.op = "sig_serialize" =>
       /\ call.ret.val = <<KeyTypeTag(key_type(call.arg))>> \o call.arg.data
       /\ Len(call.ret.val) = 1 + WireSignatureLength(key_type(call.arg))
  /\ call.op = "pk_len" =>
       /\ call.ret.val = 1 + WirePublicKeyLength(key_type(call.arg))
       /\ call.ret.val = Len(PublicKeySerialize(call.arg))

\* an RSA public key derived from the secret key was encoded
BinaryEncodingWitness ==
  /\ call.op = "pk_serialize"
  /\ call.src = "public_key"
  /\ key_type(call.arg) = "RSA2048"
  /\ Len(call.ret.val) = 295

\* len was called, and a signature was encoded
BinaryEncodingLenReached == call.op = "pk_len" /\ key_type(call.arg) = "SECP256K1"
BinaryEncodingSigReached == call.op = "sig_serialize" /\ key_type(call.arg) = "SECP256K1"

IsBinaryDecode(c) == c.op \in {"pk_try_from_slice", "sig_try_from_slice"}

\* the payload length the decoder of call c needs after tag byte t
NeededPayload(c, t) ==
  LET kt == CASE t = 0 -> "ED25519" [] t = 1 -> "SECP256K1" [] t = 2 -> "RSA2048"
  IN IF c.op = "pk_try_from_slice" THEN WirePublicKeyLength(kt) ELSE WireSignatureLength(kt)

\* the input of call c is empty, has an unknown tag byte or is too short
MalformedWire(c) ==
  \/ c.arg = <<>>
  \/ c.arg[1] \notin {0, 1, 2}
  \/ Len(c.arg) - 1 < NeededPayload(c, c.arg[1])

\* C9: binary decoding of a public key or a signature returns a data-format
\* error, and no value, when the input is empty, when the first byte is not
\* 0, 1 or 2, or when fewer payload bytes follow than the tag needs.
MalformedBinaryRejected ==
  (IsBinaryDecode(call) /\ MalformedWire(call))
    => IsErr(call.ret) /\ call.ret.val.error = "InvalidData"

\* the one-byte input [0] was rejected as a public key
MalformedBinaryWitness ==
  /\ call.op = "pk_try_from_slice"
  /\ call.arg = <<0>>
  /\ IsErr(call.ret)

\* the same input as a signature, the empty input and an unknown tag
MalformedBinarySigReached == call.op = "sig_try_from_slice" /\ call.arg = <<0>>
MalformedBinaryEmptyReached == IsBinaryDecode(call) /\ call.arg = <<>>
MalformedBinaryTagReached ==
  IsBinaryDecode(call) /\ call.arg # <<>> /\ call.arg[1] = 3 /\ Len(call.arg) = 33

----------------------------------------------------------------------------
(* Textual codec properties.                                               *)

IsParse(c) == c.op \in {"pk_from_str", "sk_from_str", "sig_from_str"}

TextRoundTripSigReached ==
  call.op = "sig_from_str" /\ call.src = "sign" /\ key_type(call.orig) = "SECP256K1"
TextRoundTripRsaReached ==
  call.op = "sk_from_str" /\ call.src = "from_random" /\ key_type(call.orig) = "RSA2048"
TextRoundTripPkReached ==
  call.op = "pk_from_str" /\ call.src = "public_key" /\ key_type(call.orig) = "SECP256K1"

\* and for a secret key and a signature that came from parsing outside text
TextRoundTripParsedSkReached == call.op = "sk_from_str" /\ call.src = "sk_from_str"
TextRoundTripParsedSigReached == call.op = "sig_from_str" /\ call.src = "sig_from_str"

\* the number of colons in a text
Colons(text) == Cardinality({i \in 1..Len(text) : text[i] = COLON})

\* C10: a text without a colon parses, as a public key, a secret key and a
\* signature, to what the same text after "ed25519:" parses to (value or
\* error); and a text is split at its first colon only, so that a later colon
\* is part of the payload (where base58 rejects it) and not of the name.
LegacyTextIsEd25519 ==
  /\ (IsParse(call) /\ call.src = "prefixed") => call.ret = call.orig
  /\ (IsParse(call) /\ Colons(call.arg) > 1
      /\ IsOk(KeyTypeFromStr(SubSeq(call.arg, 1, FirstIndexOf(call.arg, COLON) - 1))))
       => IsErr(call.ret) /\ call.ret.val.error = "InvalidData"

\* a colon-less 32-byte payload parsed as a public key, then with the prefix
LegacyTextWitness ==
  /\ call.op = "pk_from_str"
  /\ call.src = "prefixed"
  /\ IsOk(call.ret)
  /\ key_type(call.ret.val) = "ED25519"
  /\ call.ret = call.orig

\* the same with an error on both sides, as a secret key and as a signature,
\* and a text with two colons
LegacyTextErrReached == IsParse(call) /\ call.src = "prefixed" /\ IsErr(call.ret)
LegacyTextSkReached == call.op = "sk_from_str" /\ call.src = "prefixed" /\ IsOk(call.ret)
LegacyTextSigReached == call.op = "sig_from_str" /\ call.src = "prefixed" /\ IsOk(call.ret)
LegacyTextTwoColonsReached == IsParse(call) /\ Colons(call.arg) > 1

----------------------------------------------------------------------------
(* Base58 properties.                                                      *)

BadLength(expected, received) ==
  Err([error |-> "BadLength", expected |-> expected, received |-> received])

IsBadData(ret) == IsErr(ret) /\ ret.val.error = "BadData"

IsDecodeOf(src) == call.op = "decode_bs58" /\ call.src = src

\* decode_bs58::<N> of the text of n bytes: the bytes when n = N, BadLength
\* with the decoded length when n < N, BadLength with N + 1 when n > N
DecodeByLength ==
  IsDecodeOf("encoded") =>
    LET N == call.arg.N
        n == Len(call.orig)
    IN call.ret = IF n = N THEN Ok(call.orig)
                  ELSE IF n < N THEN BadLength(N, n)
                  ELSE BadLength(N, N + 1)

\* the declared length of the payload of a text, 0 for the RSA secret key,
\* whose length is not fixed
TextPayloadLength(op, kt) ==
  CASE op = "pk_from_str" -> PublicKeyLength(kt)
    [] op = "sig_from_str" -> SignatureLength(kt)
    [] op = "sk_from_str" ->
         CASE kt = "ED25519" -> ED25519_KEYPAIR_LENGTH
           [] kt = "SECP256K1" -> SECP256K1_SECRET_KEY_SIZE
           [] kt = "RSA2048" -> 0

IsParseTagged == call.op \in {"pk_from_str", "sk_from_str", "sig_from_str"} /\ call.src = "tagged"

WrongLengthTagged ==
  /\ IsParseTagged
  /\ TextPayloadLength(call.op, call.orig.key_type) # 0
  /\ Len(call.orig.data) # TextPayloadLength(call.op, call.orig.key_type)

\* a key or signature text whose payload has the wrong length for the
\* declared algorithm is rejected with InvalidLength
WrongLengthTextRejected ==
  WrongLengthTagged =>
    LET N == TextPayloadLength(call.op, call.orig.key_type)
        n == Len(call.orig.data)
    IN call.ret = Err([error |-> "InvalidLength", expected_length |-> N,
                       received_length |-> IF n < N THEN n ELSE N + 1])

\* the position of the replaced character of the text of a corrupted decode
BadCharAt == IF call.src = "first_char" THEN 1 ELSE Len(call.arg.encoded)

\* the number of bytes, leading zeros aside, that the characters before the
\* replaced one stand for
BytesBeforeBadChar ==
  LET before == SubSeq(call.arg.encoded, 1, BadCharAt - 1)
      bytes == Bs58DecodeInto(before, Len(before)).val
  IN Len(bytes) - LeadingCount(bytes, 0)

\* a character outside the alphabet always gives BadData
BadCharacterIsBadData ==
  (IsDecodeOf("first_char") \/ IsDecodeOf("last_char")) => IsBadData(call.ret)

\* the statement of C11 as written: the length cases, the InvalidLength
\* consequence, and BadData for every character outside the alphabet
FixedLengthDecodeBadCharAlways ==
  DecodeByLength /\ WrongLengthTextRejected /\ BadCharacterIsBadData

\* a character outside the alphabet gives BadData when the characters before
\* it stand for at most N bytes (leading zeros aside), BadLength{N, N + 1}
\* when they already stand for more
BadCharacterByPosition ==
  (IsDecodeOf("first_char") \/ IsDecodeOf("last_char")) =>
    IF BytesBeforeBadChar > call.arg.N
    THEN call.ret = BadLength(call.arg.N, call.arg.N + 1)
    ELSE IsBadData(call.ret)

\* C11: decode_bs58::<N> returns the bytes only when the text decodes to
\* exactly N bytes, BadLength{N, decoded length} when it decodes to fewer,
\* BadLength{N, N + 1} when it decodes to more; a key or signature text whose
\* payload has the wrong length for the declared algorithm fails with
\* InvalidLength; and a character outside the alphabet gives BadData when the
\* characters before it stand for at most N bytes (leading zeros aside), and
\* BadLength{N, N + 1} when they already stand for more
FixedLengthDecode ==
  DecodeByLength /\ WrongLengthTextRejected /\ BadCharacterByPosition

\* a 65-byte payload decoded into 32 bytes with its last character replaced
FixedLengthDecodeWitness ==
  /\ IsDecodeOf("last_char")
  /\ Len(call.orig) = SECP256K1_SIGNATURE_LENGTH
  /\ call.arg.N = ED25519_PUBLIC_KEY_LENGTH
  /\ call.ret = BadLength(ED25519_PUBLIC_KEY_LENGTH, ED25519_PUBLIC_KEY_LENGTH + 1)

FixedLengthDecodeExactReached ==
  IsDecodeOf("encoded") /\ Len(call.orig) = call.arg.N /\ call.ret = Ok(call.orig)

FixedLengthDecodeShortReached ==
  IsDecodeOf("encoded") /\ call.ret = BadLength(ED25519_KEYPAIR_LENGTH, 33)

FixedLengthDecodeLongReached ==
  IsDecodeOf("encoded") /\ Len(call.orig) = 65 /\ call.ret = BadLength(ED25519_KEYPAIR_LENGTH, 65)

FixedLengthDecodeBadDataReached ==
  IsDecodeOf("last_char") /\ IsBadData(call.ret) /\ Len(call.orig) = call.arg.N

\* the PKCS#8 text of an RSA secret key parsed as a public key
FixedLengthDecodeRsaReached ==
  /\ WrongLengthTagged /\ call.op = "pk_from_str"
  /\ call.orig = [key_type |-> "RSA2048", data |-> RsaPkcs8Der([bits |-> 2048, id |-> 1])]
  /\ IsErr(call.ret)

\* a short secp256k1 payload parsed as a secret key
FixedLengthDecodeSecpReached ==
  /\ WrongLengthTagged /\ call.op = "sk_from_str"
  /\ call.orig.key_type = "SECP256K1" /\ Len(call.orig.data) = 18
  /\ IsErr(call.ret)

----------------------------------------------------------------------------
(* Algorithm-name properties.                                              *)

UnknownKeyType(name) == Err([error |-> "UnknownKeyType", unknown_key_type |-> name])

IsAlgorithmName(name) == \E kt \in KeyTypes : KeyTypeDisplay(kt) = name

IsParseNamed == call.op \in {"pk_from_str", "sk_from_str", "sig_from_str"} /\ call.src = "named"

\* C12: KeyType::from_str succeeds exactly on the texts whose ASCII-lowercase
\* form is "ed25519", "secp256k1" or "rsa2048" and returns that algorithm;
\* to_string writes the lowercase name, so from_str(to_string(t)) = t; every
\* other name, the empty one included, fails with UnknownKeyType carrying the
\* lowercased input, and a key or signature text with such a name in front
\* fails to parse with that error
AlgorithmNameParsing ==
  /\ (call.op = "kt_from_str" /\ call.src = "name") =>
       IF IsAlgorithmName(call.orig)
       THEN IsOk(call.ret) /\ KeyTypeDisplay(call.ret.val) = call.orig
       ELSE call.ret = UnknownKeyType(call.orig)
  /\ call.op = "kt_display" =>
       /\ IsOk(call.ret)
       /\ \A i \in 1..Len(call.ret.val) : ~(call.ret.val[i] >= 65 /\ call.ret.val[i] <= 90)
  /\ (call.op = "kt_from_str" /\ call.src = "kt_display") => call.ret = Ok(call.orig)
  /\ (IsParseNamed /\ ~IsAlgorithmName(call.orig)) => call.ret = UnknownKeyType(call.orig)

\* "SECP256K1" in upper case parsed as the Secp256k1 algorithm
AlgorithmNameWitness ==
  /\ call.op = "kt_from_str" /\ call.src = "name"
  /\ call.arg # call.orig /\ call.orig = STR_SECP256K1
  /\ call.ret = Ok("SECP256K1")

AlgorithmNameUnknownReached ==
  /\ call.op = "kt_from_str" /\ call.src = "name"
  /\ call.arg # call.orig /\ call.ret = UnknownKeyType(<<110, 101, 97, 114>>)

AlgorithmNameRoundTripReached ==
  call.op = "kt_from_str" /\ call.src = "kt_display" /\ call.ret = Ok("RSA2048")

\* ":<payload>" parsed as a public key
AlgorithmNameEmptyReached ==
  IsParseNamed /\ call.op = "pk_from_str" /\ call.orig = <<>> /\ IsErr(call.ret)

AlgorithmNameSignatureReached ==
  IsParseNamed /\ call.op = "sig_from_str" /\ call.ret = UnknownKeyType(<<114, 115, 97>>)

\* "Ed25519:<payload>" parsed as an Ed25519 public key
AlgorithmNameMixedCaseKeyReached ==
  /\ IsParseNamed /\ call.op = "pk_from_str" /\ call.arg[1] = 69
  /\ IsOk(call.ret) /\ call.ret.val.key_type = "ED25519"

----------------------------------------------------------------------------
(* Secp256K1Signature properties.                                          *)

SecpBadRecIdByte(sig65) == sig65[65] > 3

\* C13: recover returns an error value, never a panic, when the recovery-id
\* byte or the compact signature of a 65-byte signature is malformed, and on
\* success the 64-byte X || Y public key; the key is the signer's when the
\* signature was made by sign over the same message
RecoverReturnsErrOrKey ==
  call.op = "recover" =>
    /\ ~IsPanic(call.ret)
    /\ (SecpBadRecIdByte(call.arg.sig) \/ ~SecpFromCompactValid(SubSeq(call.arg.sig, 1, 64)))
         => IsErr(call.ret)
    /\ IsOk(call.ret) => Len(call.ret.val) = PUBLIC_KEY_SECP256K1_LENGTH
    /\ (call.src = "sign" /\ call.orig = call.arg.msg) => call.ret = Ok(public_key(sk).val.data)

\* recover on a signature whose recovery-id byte is not 0..3
RecoverBadRecoveryIdReached ==
  call.op = "recover" /\ SecpBadRecIdByte(call.arg.sig) /\ IsPanic(call.ret)

\* recover of a signature made by sign, over the signed message
RecoverSignerReached ==
  /\ call.op = "recover" /\ call.src = "sign" /\ call.orig = call.arg.msg
  /\ call.ret = Ok(public_key(sk).val.data)

RecoverBadCompactReached ==
  /\ call.op = "recover" /\ ~SecpBadRecIdByte(call.arg.sig)
  /\ ~SecpFromCompactValid(SubSeq(call.arg.sig, 1, 64)) /\ IsErr(call.ret)

\* the named value is below the curve order N
BelowOrder(v) == v.base \in {"HALF", "ZERO"} \/ (v.base = "N" /\ v.off < 0)

\* the named value is at most floor(N / 2)
AtMostHalf(v) == v.base = "ZERO" \/ (v.base = "HALF" /\ v.off <= 0)

\* the named value is at most floor(N / 2) + 1
AtMostHalfPlusOne(v) == v.base = "ZERO" \/ (v.base = "HALF" /\ v.off <= 1)

IsCheckOfValues == call.op = "check_signature_values" /\ call.src = "values"

\* the statement of C14 as written: with reject_upper, s may be as large as
\* half the curve order plus one
CheckSignatureValuesHalfPlusOne ==
  IsCheckOfValues =>
    call.ret = Ok(/\ BelowOrder(call.orig.r)
                  /\ BelowOrder(call.orig.s)
                  /\ (call.arg.reject_upper => AtMostHalfPlusOne(call.orig.s)))

\* C14: check_signature_values(reject_upper), with r and s the big-endian
\* values of bytes 0..32 and 32..64, is true iff r and s are below the curve
\* order N and, when reject_upper is set, s is strictly below floor(N / 2) + 1,
\* that is at most floor(N / 2); so valid r with s = floor(N / 2) + 1 passes
\* with reject_upper = false and fails with reject_upper = true; the
\* recovery-id byte plays no part
CheckSignatureValuesLowS ==
  IsCheckOfValues =>
    call.ret = Ok(/\ BelowOrder(call.orig.r)
                  /\ BelowOrder(call.orig.s)
                  /\ (call.arg.reject_upper => AtMostHalf(call.orig.s)))

\* s = floor(N / 2) + 1 with valid r and an out-of-range recovery byte:
\* rejected with reject_upper
CheckSignatureValuesWitness ==
  /\ IsCheckOfValues /\ call.arg.reject_upper
  /\ BelowOrder(call.orig.r) /\ call.orig.s = [base |-> "HALF", off |-> 1]
  /\ call.orig.v = 7
  /\ call.ret = Ok(FALSE)

CheckSignatureValuesUpperAcceptedReached ==
  /\ IsCheckOfValues /\ ~call.arg.reject_upper
  /\ call.orig.s = [base |-> "HALF", off |-> 1] /\ call.ret = Ok(TRUE)

CheckSignatureValuesHalfReached ==
  /\ IsCheckOfValues /\ call.arg.reject_upper
  /\ call.orig.s = [base |-> "HALF", off |-> 0] /\ call.ret = Ok(TRUE)

CheckSignatureValuesOrderReached ==
  /\ IsCheckOfValues /\ ~call.arg.reject_upper
  /\ call.orig.r = [base |-> "N", off |-> 0] /\ BelowOrder(call.orig.s)
  /\ call.ret = Ok(FALSE)

\* floor(N / 2) + 1 is the constant of the code
CheckSignatureValuesConstantReached ==
  IsCheckOfValues /\ AddBE(HalfBE(SECP256K1_N), 1) = SECP256K1_N_HALF_ONE

----------------------------------------------------------------------------
(* Bs58 Display properties.                                                *)

\* C15: the Bs58 Display helper succeeds, writing the whole base58 text, for
\* every byte slice of at most 2048 bytes
Bs58DisplayAlwaysSucceeds ==
  (call.op = "bs58_display" /\ Len(call.arg) <= BS58_BUF_LEN) =>
    /\ IsOk(call.ret)
    /\ Len(call.ret.val) >= Len(call.arg)

\* 2048 bytes that do not fit: 2040 zeros and eight 0xff
Bs58DisplayPanicReached ==
  /\ call.op = "bs58_display" /\ Len(call.arg) = BS58_BUF_LEN
  /\ call.ret = Panic("BufferTooSmall")

\* 2048 zero bytes fit exactly
Bs58DisplayLimitReached ==
  /\ call.op = "bs58_display" /\ Len(call.arg) = BS58_BUF_LEN
  /\ IsOk(call.ret) /\ Len(call.ret.val) = BS58_BUF_LEN

----------------------------------------------------------------------------
(* PublicKey::empty properties.                                            *)

\* the payload lengths the documentation gives for the three algorithms
EmptyPayloadLength(kt) ==
  CASE kt = "ED25519" -> 32
    [] kt = "SECP256K1" -> 64
    [] kt = "RSA2048" -> 294

\* C16: PublicKey::empty(tag) has key_type() = tag and an all-zero payload of
\* 32, 64 or 294 bytes; its text is the lowercase algorithm name, a colon and
\* that many '1' characters
EmptyPublicKey ==
  /\ call.op = "empty" =>
       /\ IsOk(call.ret)
       /\ key_type(call.ret.val) = call.arg
       /\ Len(call.ret.val.data) = EmptyPayloadLength(call.arg)
       /\ \A i \in 1..Len(call.ret.val.data) : call.ret.val.data[i] = 0
  /\ (call.op = "pk_display" /\ call.src = "empty") =>
       call.ret = Ok(KeyTypeDisplay(call.arg.key_type) \o <<COLON>>
                     \o Fill(EmptyPayloadLength(call.arg.key_type), 49))

\* the text of the empty RSA key: "rsa2048:" and 294 '1' characters
EmptyPublicKeyWitness ==
  /\ call.op = "pk_display" /\ call.src = "empty"
  /\ call.arg.key_type = "RSA2048"
  /\ IsOk(call.ret) /\ Len(call.ret.val) = 8 + 294

EmptyPublicKeyEdReached ==
  call.op = "empty" /\ call.arg = "ED25519" /\ call.ret = Ok(MkPublicKey("ED25519", Zeros(32)))

----------------------------------------------------------------------------
(* Signature length properties.                                            *)

\* the payload lengths the documentation gives for the three algorithms
SignaturePayloadLength(kt) ==
  CASE kt = "ED25519" -> 64
    [] kt = "SECP256K1" -> 65
    [] kt = "RSA2048" -> 256

SignatureProducers == {"sign", "from_parts", "sig_from_str", "sig_try_from_slice"}

\* C17: every Signature returned by sign, from_parts, text parsing or binary
\* decoding has a payload of exactly 64 (Ed25519), 65 (Secp256k1) or 256
\* (Rsa2048) bytes; from_parts(tag, bytes) succeeds exactly when bytes has
\* that length for tag and otherwise returns an InvalidData error, no panic
SignatureLengthInvariant ==
  /\ Made(SignatureProducers) =>
       Len(call.ret.val.data) = SignaturePayloadLength(call.ret.val.key_type)
  /\ (call.op = "from_parts" /\ call.src = "") =>
       IF Len(call.orig.data) = SignaturePayloadLength(call.orig.key_type)
       THEN call.ret = Ok(MkSignature(call.orig.key_type, call.orig.data))
       ELSE IsErr(call.ret) /\ call.ret.val.error = "InvalidData"

\* a 64-byte blob offered as a Secp256k1 signature
SignatureLengthWitness ==
  /\ call.op = "from_parts" /\ call.src = ""
  /\ call.orig.key_type = "SECP256K1" /\ Len(call.orig.data) = 64
  /\ IsErr(call.ret)

SignatureLengthParsedReached ==
  Made({"sig_from_str"}) /\ call.ret.val.key_type = "SECP256K1"

SignatureLengthDecodedReached ==
  Made({"sig_try_from_slice"}) /\ call.ret.val.key_type = "RSA2048"

SignatureLengthSignedReached ==
  Made({"sign"}) /\ call.ret.val.key_type = "RSA2048"

SignatureLengthOutsideTextReached ==
  Made({"sig_from_str"}) /\ call.src = "input"

SignatureLengthOutsideBytesReached ==
  Made({"sig_try_from_slice"}) /\ call.src = "input"

----------------------------------------------------------------------------
(* SecretKey equality properties.                                          *)

IsEdCompare ==
  call.op = "sk_eq" /\ call.arg.a.key_type = "ED25519" /\ call.arg.b.key_type = "ED25519"

\* C18: two Ed25519 secret keys are equal iff their first 32 bytes are equal,
\* whatever their trailing 32 bytes are, although the text form carries all
\* 64 bytes
SecretKeyEqualityBySecretHalf ==
  /\ IsEdCompare =>
       call.ret = Ok(\A i \in 1..32 : call.arg.a.data[i] = call.arg.b.data[i])
  /\ (call.op = "sk_from_str" /\ call.src = "halves") => call.ret = Ok(call.orig)
  /\ (call.op = "sk_display" /\ call.arg.key_type = "ED25519") =>
       /\ IsOk(call.ret)
       /\ decode_bs58(64, SubSeq(call.ret.val, Len(STR_ED25519) + 2, Len(call.ret.val)))
            = Ok(call.arg.data)

\* equal keys whose trailing halves differ
SecretKeyEqualityWitness ==
  /\ IsEdCompare /\ call.ret = Ok(TRUE)
  /\ SubSeq(call.arg.a.data, 33, 64) # SubSeq(call.arg.b.data, 33, 64)

\* unequal keys whose trailing halves are the same
SecretKeyEqualityDifferentReached ==
  /\ IsEdCompare /\ call.ret = Ok(FALSE)
  /\ SubSeq(call.arg.a.data, 33, 64) = SubSeq(call.arg.b.data, 33, 64)

SecretKeyEqualityTextReached ==
  /\ call.op = "sk_display" /\ call.src = "sk_from_str" /\ call.arg.key_type = "ED25519"
  /\ SubSeq(call.arg.data, 33, 64) = Zeros(32) /\ IsOk(call.ret)

----------------------------------------------------------------------------
(* SecretKey::public_key properties.                                       *)

\* the public key that belongs to a secret key, from the primitives
DerivedPublicKey(k) ==
  CASE k.key_type = "ED25519" -> EdDerivePublic(SubSeq(k.data, 1, 32))
    [] k.key_type = "SECP256K1" ->
         SubSeq(SecpSerializeUncompressed(k.data), 2, Len(SecpSerializeUncompressed(k.data)))
    [] k.key_type = "RSA2048" -> RsaPublicKeyDer(k.data)

PublicKeyIsDerived ==
  call.op = "public_key" =>
    /\ IsOk(call.ret)
    /\ key_type(call.ret.val) = sk.key_type
    /\ call.ret.val.data = DerivedPublicKey(sk)
    /\ Len(call.ret.val.data) = EmptyPayloadLength(sk.key_type)
    /\ sk.key_type = "ED25519" =>
         \A i \in 1..32 : call.ret.val.data[i] = sk.data[32 + i]

PublicKeyIsRepeatable ==
  (call.op = "public_key" /\ pk.src = "public_key") => call.ret = Ok(pk.val)

\* C19: for a well-formed secret key, public_key() never fails, returns a
\* public key of the key's own type (Ed25519: the trailing 32 bytes;
\* Secp256k1: the uncompressed point without its leading byte; Rsa2048: the
\* 294-byte DER), returns the same key on every call whatever sign calls
\* come in between, and leaves the secret key as it was
PublicKeyDerivation ==
  [](PublicKeyIsDerived /\ PublicKeyIsRepeatable) /\ [][sk' = sk]_vars

\* a second public_key call, after a sign call whose signature was kept,
\* returns the public key kept from the first
PublicKeyDerivationWitness ==
  /\ call.op = "public_key" /\ pk.src = "public_key" /\ sig.src = "sign"
  /\ call.ret = Ok(pk.val)

PublicKeyDerivationRsaReached ==
  call.op = "public_key" /\ sk.key_type = "RSA2048" /\ IsOk(call.ret)

----------------------------------------------------------------------------
(* Properties of the process-wide context.                                 *)

ContextComplete == SECP256K1 = [state |-> "COMPLETE", value |-> CONTEXT, inits |-> 1]

\* the initializer has run at most once, and a thread that was handed the
\* context was handed the constructed one, after the one run
ContextSeenConstructed ==
  /\ SECP256K1.inits <= 1
  /\ \A t \in Threads : threads[t].pc = "use" =>
       threads[t].seen = CONTEXT /\ ContextComplete

\* C20: the secp256k1 context is constructed exactly once: however the first
\* sign / verify / recover / public_key calls of the threads interleave, the
\* initializer runs a single time, every caller is handed that constructed
\* context, none an uninitialized or half-written one, and the context is
\* not modified once it is complete
ContextConstructedOnce ==
  []ContextSeenConstructed /\ [][SECP256K1.state = "COMPLETE" => SECP256K1' = SECP256K1]_vars

\* two threads hold the context; one of them lost the race for the
\* initialization
ContextConstructedOnceWitness ==
  \E t1, t2 \in Threads :
    /\ t1 # t2
    /\ threads[t1].pc = "use" /\ threads[t2].pc = "use"
    /\ ~threads[t1].lost /\ threads[t2].lost
    /\ threads[t1].seen = CONTEXT /\ threads[t2].seen = CONTEXT

\* a thread waits while another one is writing the slot
ContextWaitingReached ==
  \E t1, t2 \in Threads :
    /\ threads[t1].pc = "storing"
    /\ threads[t2].pc = "match" /\ threads[t2].curr = "RUNNING"

----------------------------------------------------------------------------
(* Public-key equality, ordering and hashing.                              *)

IsCompare == call.op = "pk_cmp"

Reversed(o) ==
  CASE o = "Less" -> "Greater"
    [] o = "Greater" -> "Less"
    [] o = "Equal" -> "Equal"

\* a is before b by the tag, or has the tag of b and the smaller byte at the
\* first position where the two differ
TagThenBytesLess(a, b) ==
  \/ KeyTypeTag(a.key_type) < KeyTypeTag(b.key_type)
  \/ /\ a.key_type = b.key_type
     /\ \E i \in 1..Len(a.data) :
          /\ a.data[i] < b.data[i]
          /\ \A j \in 1..(i - 1) : a.data[j] = b.data[j]

\* C22: PublicKey equality, ordering and hashing are defined over (tag, raw
\* bytes): two keys are equal iff they have the same tag and the same bytes;
\* the order compares the tag first (Ed25519 < Secp256k1 < Rsa2048) and then
\* the bytes lexicographically, and is a total order consistent with equality
\* (Equal exactly for equal keys, antisymmetric, transitive); the hash input
\* is the tag byte followed by the raw bytes, so equal keys hash alike.
PublicKeyOrderAndHash ==
  IsCompare =>
    LET a == call.arg.a
        b == call.arg.b
        r == call.ret.val
    IN /\ r.eq <=> (a.key_type = b.key_type /\ a.data = b.data)
       /\ (r.ab = "Less") <=> TagThenBytesLess(a, b)
       /\ (r.ab = "Greater") <=> TagThenBytesLess(b, a)
       /\ (r.ab = "Equal") <=> r.eq
       /\ r.ba = Reversed(r.ab)
       /\ (r.ab # "Greater" /\ r.bc # "Greater") => r.ac # "Greater"
       /\ (r.ab # "Less" /\ r.bc # "Less") => r.ac # "Less"
       /\ (r.ab = "Less" /\ r.bc # "Greater") => r.ac = "Less"
       /\ r.hash_a = <<KeyTypeTag(a.key_type)>> \o a.data
       /\ r.hash_b = <<KeyTypeTag(b.key_type)>> \o b.data
       /\ r.eq => r.hash_a = r.hash_b

\* two keys of one algorithm where the first byte decides against the last
PublicKeyOrderWitness ==
  /\ IsCompare
  /\ call.arg.a.key_type = call.arg.b.key_type
  /\ call.arg.a.data[1] < call.arg.b.data[1]
  /\ LastByte(call.arg.a.data) > LastByte(call.arg.b.data)
  /\ call.ret.val.ab = "Less"

\* keys of two algorithms where the tag decides against the bytes
PublicKeyOrderTagReached ==
  /\ IsCompare
  /\ call.arg.a.key_type = "SECP256K1"
  /\ call.arg.b.key_type = "ED25519"
  /\ call.arg.a.data[1] < call.arg.b.data[1]
  /\ call.ret.val.ab = "Greater"

\* a derived key compared with an equal key built from the same bytes
PublicKeyOrderEqualReached ==
  /\ IsCompare
  /\ call.ret.val.eq
  /\ call.ret.val.ab = "Equal"
  /\ call.ret.val.hash_a = call.ret.val.hash_b

\* a chain a < b < c of three different keys
PublicKeyOrderChainReached ==
  /\ IsCompare
  /\ call.ret.val.ab = "Less"
  /\ call.ret.val.bc = "Less"
  /\ call.ret.val.ac = "Less"

\* a key made by public_key() of the caller's RSA key compared with another
PublicKeyOrderRsaReached ==
  /\ IsCompare
  /\ call.arg.a = public_key(sk).val
  /\ call.arg.a.key_type = "RSA2048"
  /\ call.arg.b.key_type = "RSA2048"
  /\ call.ret.val.ab = "Greater"

----------------------------------------------------------------------------
(* Capped decode properties.                                               *)

\* the size of the buffer: min(max_len, len(text))
CappedBuffer ==
  IF call.arg.max_len < Len(call.arg.encoded) THEN call.arg.max_len ELSE Len(call.arg.encoded)

\* parse_bs58_data of the text of a payload returns the payload when it is at
\* most max_len bytes long, however short the text makes the buffer, and
\* BadLength{buffer, buffer + 1} when it is longer
CappedDecodeByLength ==
  IsParseCapped({"encoded"}) =>
    call.ret = IF Len(call.orig) <= call.arg.max_len THEN Ok(call.orig)
               ELSE BadLength(CappedBuffer, CappedBuffer + 1)

\* a character outside the alphabet always gives BadData
CappedBadCharacterIsBadData ==
  IsParseCapped({"first_char", "last_char"}) => IsBadData(call.ret)

\* a character outside the alphabet gives BadData when the characters before
\* it stand for at most as many bytes as the buffer has (leading zeros
\* aside), and BadLength{buffer, buffer + 1} when they stand for more
CappedBadCharacterByPosition ==
  IsParseCapped({"first_char", "last_char"}) =>
    IF BytesBeforeBadChar > CappedBuffer
    THEN call.ret = BadLength(CappedBuffer, CappedBuffer + 1)
    ELSE IsBadData(call.ret)

IsParseRsa(src) == call.op = "sk_from_str" /\ call.src \in src

\* the rsa2048 secret-key text goes through the decode with max_len = 2048:
\* the text of a PKCS#8 document is accepted as the SecretKey of that
\* document, the text of other bytes up to 2048 is InvalidData, the text of
\* more bytes is InvalidLength{2048, 2049}, and a text with a character
\* outside the alphabet is InvalidData
RsaSecretKeyTextIsCapped ==
  /\ IsParseRsa({"encoded"}) =>
       IF Len(call.orig) > RSA_SECRET_KEY_MAX_LEN
       THEN call.ret = Err([error |-> "InvalidLength",
                            expected_length |-> RSA_SECRET_KEY_MAX_LEN,
                            received_length |-> RSA_SECRET_KEY_MAX_LEN + 1])
       ELSE IF IsOk(RsaFromPkcs8Der(call.orig))
            THEN call.ret = Ok(MkSecretKey("RSA2048", RsaFromPkcs8Der(call.orig).val))
            ELSE IsErr(call.ret) /\ call.ret.val.error = "InvalidData"
  /\ IsParseRsa({"first_char", "last_char"}) =>
       IsErr(call.ret) /\ call.ret.val.error = "InvalidData"

\* the statement of C23 as written: the length cases, BadData for every
\* character outside the alphabet, and the RSA secret-key text
CappedDecodeBadCharAlways ==
  CappedDecodeByLength /\ CappedBadCharacterIsBadData /\ RsaSecretKeyTextIsCapped

\* C23: parse_bs58_data(max_len, text) decodes into a buffer of min(max_len,
\* len(text)) bytes and returns exactly the decoded bytes whenever they are at
\* most max_len, so the shortening to len(text) rejects nothing that fits; it
\* fails with BadLength{buffer, buffer + 1} when the decoded data does not
\* fit; a character outside the alphabet gives BadData when the characters
\* before it stand for at most as many bytes as the buffer has, and
\* BadLength{buffer, buffer + 1} when they already stand for more; and the
\* rsa2048 secret-key text is decoded with max_len = 2048, so the text of an
\* RSA PKCS#8 document is accepted as a SecretKey.
CappedDecode ==
  CappedDecodeByLength /\ CappedBadCharacterByPosition /\ RsaSecretKeyTextIsCapped

\* a 65-byte payload decoded with max_len = 32 with its last character
\* replaced
CappedDecodeWitness ==
  /\ IsParseCapped({"last_char"})
  /\ Len(call.orig) = SECP256K1_SIGNATURE_LENGTH
  /\ call.arg.max_len = ED25519_PUBLIC_KEY_LENGTH
  /\ call.ret = BadLength(ED25519_PUBLIC_KEY_LENGTH, ED25519_PUBLIC_KEY_LENGTH + 1)

\* all-zero payloads, whose text is exactly as long as the payload: the
\* buffer is the text length and is filled to the last byte
CappedDecodeTightReached ==
  /\ IsParseCapped({"encoded"})
  /\ call.orig = Zeros(ED25519_PUBLIC_KEY_LENGTH)
  /\ call.arg.max_len = RSA_SECRET_KEY_MAX_LEN
  /\ CappedBuffer = ED25519_PUBLIC_KEY_LENGTH
  /\ call.ret = Ok(call.orig)

CappedDecodeAtCapReached ==
  /\ IsParseCapped({"encoded"})
  /\ Len(call.orig) = RSA_SECRET_KEY_MAX_LEN
  /\ Len(call.arg.encoded) > RSA_SECRET_KEY_MAX_LEN
  /\ call.arg.max_len = RSA_SECRET_KEY_MAX_LEN
  /\ call.ret = Ok(call.orig)

CappedDecodeOverCapReached ==
  /\ IsParseCapped({"encoded"})
  /\ Len(call.orig) = RSA_SECRET_KEY_MAX_LEN + 1
  /\ call.arg.max_len = RSA_SECRET_KEY_MAX_LEN
  /\ call.ret = BadLength(RSA_SECRET_KEY_MAX_LEN, RSA_SECRET_KEY_MAX_LEN + 1)

CappedDecodeBadDataReached ==
  IsParseCapped({"first_char"}) /\ IsBadData(call.ret) /\ Len(call.orig) > call.arg.max_len

CappedDecodeLeadingZerosReached ==
  IsParseCapped({"encoded"}) /\ call.orig = <<0, 0, 255>> /\ call.ret = Ok(call.orig)

\* the text of a PKCS#8 document parsed as an rsa2048 secret key
CappedDecodeRsaReached ==
  /\ IsParseRsa({"encoded"})
  /\ IsOk(call.ret)
  /\ call.ret.val = MkSecretKey("RSA2048", [bits |-> 2048, id |-> 1])

CappedDecodeRsaTooLongReached ==
  /\ IsParseRsa({"encoded"})
  /\ Len(call.orig) = RSA_SECRET_KEY_MAX_LEN + 1
  /\ IsErr(call.ret) /\ call.ret.val.error = "InvalidLength"

----------------------------------------------------------------------------
(* Genesis record properties.                                              *)

IsAddContract == call.op = "add_contract"

\* the positions of the Account records of an account
AccountRecords(records, account_id) ==
  {i \in 1..Len(records) : records[i].kind = "Account" /\ records[i].account_id = account_id}

\* add_contract pre-deploys the contract: every Account record of the account
\* has the hash of the code; one Account record with zero balances and that
\* hash is appended when the account had none, and none otherwise; one
\* Contract record is appended as the last record; the records that were
\* there stay where they were, and only the code hash of the Account records
\* of the account changes
AddContractEffect ==
  IsAddContract =>
    LET before == call.arg.records
        id == call.arg.account_id
        code == call.arg.code
        had == AccountRecords(before, id) # {}
        added == IF had THEN 1 ELSE 2
    IN /\ Len(genesis) = Len(before) + added
       /\ \A i \in AccountRecords(genesis, id) : genesis[i].account.code_hash = hash(code)
       /\ AccountRecords(genesis, id) # {}
       /\ ~had => genesis[Len(before) + 1] =
                    [kind |-> "Account", account_id |-> id,
                     account |-> [balances |-> <<0, 0, 0>>, code_hash |-> hash(code),
                                  storage_usage |-> 0]]
       /\ genesis[Len(genesis)] = [kind |-> "Contract", account_id |-> id, code |-> code]
       /\ \A i \in 1..Len(before) :
            IF i \in AccountRecords(before, id)
            THEN genesis[i] = [before[i] EXCEPT !.account.code_hash = hash(code)]
            ELSE genesis[i] = before[i]

\* a call never removes a record
RecordsOnlyGrow == Len(genesis') >= Len(genesis)

\* C24: add_contract(genesis, account_id, code) pre-deploys the contract:
\* afterwards every Account record of account_id has code_hash = hash(code);
\* exactly one new Account record (zero balances, that code hash) is appended
\* if the account had none, otherwise none; exactly one Contract record is
\* appended as the last record; the records of other accounts and all
\* non-Account records are unchanged and keep their order; and over any
\* sequence of add_contract / add_account_with_access_key calls the record
\* list only grows.
AddContractPreDeploys == []AddContractEffect /\ [][RecordsOnlyGrow]_vars

\* add_contract for an account that has two Account records and a contract
\* of other code
AddContractWitness ==
  /\ IsAddContract
  /\ Cardinality(AccountRecords(call.arg.records, call.arg.account_id)) = 2
  /\ \E i \in 1..Len(call.arg.records) :
       /\ call.arg.records[i].kind = "Account"
       /\ call.arg.records[i].account_id = call.arg.account_id
       /\ call.arg.records[i].account.code_hash # hash(call.arg.code)
  /\ Len(genesis) = Len(call.arg.records) + 1

\* add_contract for an account without an Account record, among the records
\* of another account
AddContractNewAccountReached ==
  /\ IsAddContract
  /\ AccountRecords(call.arg.records, call.arg.account_id) = {}
  /\ Len(call.arg.records) >= 2
  /\ Len(genesis) = Len(call.arg.records) + 2

\* a second contract for an account that has one already
AddContractTwiceReached ==
  /\ IsAddContract
  /\ \E i \in 1..Len(call.arg.records) :
       /\ call.arg.records[i].kind = "Contract"
       /\ call.arg.records[i].account_id = call.arg.account_id
       /\ call.arg.records[i].code # call.arg.code

\* an account added after its contract
AddAccountAfterContractReached ==
  /\ call.op = "add_account_with_access_key"
  /\ \E i \in 1..Len(call.arg.records) :
       /\ call.arg.records[i].kind = "Contract"
       /\ call.arg.records[i].account_id = call.arg.account_id
  /\ Len(genesis) = Len(call.arg.records) + 2

----------------------------------------------------------------------------
(* The textual and the binary Signature codec.                             *)

\* the binary form of a signature that from_parts or from_str returned was
\* read back
IsReadBack == call.op = "sig_try_from_slice" /\ call.src \in {"from_parts", "sig_from_str"}

\* the legacy check of the binary decoder fails for this signature
EdTopBitsSet(s) ==
  s.key_type = "ED25519" /\ LastByte(s.data) \div 32 # 0

\* C25: the textual and the binary Signature codec accept the same values:
\* every Signature that text parsing or from_parts accepts is binary-encoded
\* and binary-decoded back to an equal Signature, Ed25519 signatures whose
\* last byte has one of its top three bits set included.
SignatureCodecsAgree ==
  IsReadBack => call.ret = Ok(call.orig)

\* an Ed25519 signature with a top bit set, accepted by from_parts and by
\* from_str, is refused by the binary decoder
SignatureCodecsDisagreeReached ==
  /\ IsReadBack
  /\ EdTopBitsSet(call.orig)
  /\ IsErr(call.ret)

SignatureCodecsParsedReached ==
  /\ call.op = "sig_try_from_slice" /\ call.src = "sig_from_str"
  /\ EdTopBitsSet(call.orig)
  /\ IsErr(call.ret)

\* the two codecs agree on every other signature
SignatureCodecsAgreeOtherwise ==
  (IsReadBack /\ ~EdTopBitsSet(call.orig)) => call.ret = Ok(call.orig)

----------------------------------------------------------------------------
(* Secret-key equality and key derivation.                                 *)

IsDerivedPair == call.op = "public_keys"

\* C26: equality of secret keys is a congruence for key derivation: for all
\* SecretKeys a and b from the public constructors, text parsing included,
\* a == b implies a.public_key() == b.public_key().
SecretKeyEqualityIsCongruence ==
  (IsDerivedPair /\ call.ret.val.eq) =>
    /\ IsOk(call.ret.val.a)
    /\ IsOk(call.ret.val.b)
    /\ PublicKeyEq(call.ret.val.a.val, call.ret.val.b.val)

\* a generated Ed25519 key and the key parsed from the text of its secret
\* half with another trailing half: equal keys, different public keys
SecretKeyCongruenceBrokenReached ==
  /\ IsDerivedPair
  /\ call.src = "halves"
  /\ call.arg.a = sk
  /\ call.ret.val.eq
  /\ ~PublicKeyEq(call.ret.val.a.val, call.ret.val.b.val)

\* equal keys from the text form of the caller's own key derive equal public
\* keys
SecretKeyCongruenceRoundTrip ==
  (IsDerivedPair /\ call.src = "from_random") =>
    /\ call.ret.val.eq
    /\ call.ret.val.a = call.ret.val.b

----------------------------------------------------------------------------
(* Parsed secret keys in use.                                              *)

IsUse == call.op = "use"

\* the Ed25519 key pair whose trailing half is not the public key of its
\* leading half
MismatchedHalves(k) ==
  /\ k.key_type = "ED25519"
  /\ SubSeq(k.data, 33, 64) # EdDerivePublic(SubSeq(k.data, 1, 32))

\* the RSA key whose modulus is not 2048 bits long
OtherModulus(k) ==
  k.key_type = "RSA2048" /\ k.data.bits # PRIVTAE_KEY_DEFAULT_RSA_KEY_BITS

\* public_key() and sign(data) completed, the signature verifies against the
\* public key, and both have the sizes of the wire format
UsedWell(r) ==
  /\ IsOk(r.public_key)
  /\ IsOk(r.sign)
  /\ r.verify = Ok(TRUE)
  /\ Len(r.public_key.val.data) = PublicKeyLength(r.public_key.val.key_type)
  /\ Len(r.sign.val.data) = SignatureLength(r.sign.val.key_type)

\* C27: every SecretKey that text parsing accepts is usable: public_key() and
\* sign(data) with a 32-byte data complete without a panic, the signature
\* verifies against public_key(), and the key has the sizes of the wire
\* format; in particular an Ed25519 text whose public half does not match the
\* secret half and an rsa2048 text of a PKCS#8 key of another modulus size.
ParsedSecretKeyUsable ==
  IsUse => UsedWell(call.ret.val)

\* sign panics for the Ed25519 key with mismatched halves
ParsedKeySignPanicReached ==
  /\ IsUse
  /\ MismatchedHalves(call.arg.key)
  /\ IsOk(call.ret.val.public_key)
  /\ IsPanic(call.ret.val.sign)

\* public_key and sign panic for the RSA key of 1024 bits
ParsedKeyRsaPanicReached ==
  /\ IsUse
  /\ OtherModulus(call.arg.key)
  /\ IsPanic(call.ret.val.public_key)
  /\ IsPanic(call.ret.val.sign)

\* every other parsed key is usable
ParsedSecretKeyUsableOtherwise ==
  (IsUse /\ ~MismatchedHalves(call.arg.key) /\ ~OtherModulus(call.arg.key))
    => UsedWell(call.ret.val)

ParsedKeyUsedWellReached ==
  /\ IsUse
  /\ call.src = "pkcs8"
  /\ UsedWell(call.ret.val)

====
